---------------------------- MODULE Spec2Model ----------------------------
(***************************************************************************)
(* A model of the navigation reachability subsystem of the AppSheet parser *)
(* and orphan detector: the view orphan detector (view_orphan_detector.py) *)
(* and the navigation edge generator (navigation_edge_generator.py).       *)
(*                                                                         *)
(* Field values that the code only compares, lower-cases or looks up are   *)
(* strings; fields the code splits, strips or matches against a regular    *)
(* expression (show_if) are sequences of one-character strings.            *)
(***************************************************************************)
EXTENDS Naturals, Integers, Sequences, FiniteSets, TLC

(***************************************************************************)
(* Bounds of the model.                                                    *)
(***************************************************************************)
\* the number of rows of navigation_edges.csv the detector reads
MaxEdges == 2
\* the number of group actions of the group-cycle inputs
MaxGroups == 2

(***************************************************************************)
(* String helpers.                                                         *)
(***************************************************************************)
\* str.lower() on the field values of the model's universe
Lower(s) ==
  CASE s = "Main" -> "main"
    [] s = "Arch" -> "arch"
    [] s = "Deep" -> "deep"
    [] s = "Primary" -> "primary"
    [] s = "First" -> "first"
    [] s = "Yes" -> "yes"
    [] s = "No" -> "no"
    [] s = "Row Selected" -> "row selected"
    [] s = "Form Saved" -> "form saved"
    [] s = "Orders" -> "orders"
    [] s = "Tasks" -> "tasks"
    [] s = "Detail" -> "detail"
    [] s = "OpenOrders" -> "openorders"
    [] s = "Go" -> "go"
    [] s = "Grp" -> "grp"
    [] s = "GrpA" -> "grpa"
    [] s = "GrpB" -> "grpb"
    [] s = "GrpC" -> "grpc"
    [] s = "View" -> "view"
    [] s = "ViewType" -> "viewtype"
    [] s = "VIEWTYPE" -> "viewtype"
    [] s = "Table" -> "table"
    [] s = "Host" -> "host"
    [] s = "Ghost" -> "ghost"
    [] OTHER -> s

\* str.lower() on one character
LowerChar(c) ==
  CASE c = "F" -> "f"
    [] c = "A" -> "a"
    [] c = "L" -> "l"
    [] c = "S" -> "s"
    [] c = "E" -> "e"
    [] c = "T" -> "t"
    [] c = "R" -> "r"
    [] c = "U" -> "u"
    [] c = "B" -> "b"
    [] OTHER -> c

LowerSeq(s) == [i \in 1..Len(s) |-> LowerChar(s[i])]

IsSpace(c) == c \in {" ", "\t", "\n"}

RECURSIVE StripLeft(_)
StripLeft(s) ==
  IF s # <<>> /\ IsSpace(Head(s)) THEN StripLeft(Tail(s)) ELSE s

RECURSIVE StripRight(_)
StripRight(s) ==
  IF s # <<>> /\ IsSpace(s[Len(s)]) THEN StripRight(SubSeq(s, 1, Len(s) - 1)) ELSE s

\* str.strip() on a sequence of characters
Strip(s) == StripRight(StripLeft(s))

StartsWith(s, t) == Len(s) >= Len(t) /\ SubSeq(s, 1, Len(t)) = t

\* re.match of ^\s*tok1\s*tok2\s*...\s*$ where every tok is a literal
RECURSIVE MatchTokens(_, _)
MatchTokens(s, toks) ==
  LET r == StripLeft(s) IN
  IF toks = <<>> THEN r = <<>>
  ELSE /\ StartsWith(r, Head(toks))
       /\ MatchTokens(SubSeq(r, Len(Head(toks)) + 1, Len(r)), Tail(toks))

\* a deterministic enumeration of a finite set
RECURSIVE SetToSeq(_)
SetToSeq(S) ==
  IF S = {} THEN <<>>
  ELSE LET x == CHOOSE y \in S : TRUE IN <<x>> \o SetToSeq(S \ {x})

\* every enumeration of a finite set (the iteration orders of a Python set)
Orders(S) ==
  {q \in [1..Cardinality(S) -> S] : \A i, j \in 1..Cardinality(S) : i # j => q[i] # q[j]}

Range(q) == {q[i] : i \in DOMAIN q}

(***************************************************************************)
(* The view orphan detector: its inputs.                                   *)
(***************************************************************************)
VARIABLES
  all_views,             \* ViewOrphanDetector.all_views: the rows of appsheet_views.csv
  edge_rows,             \* the rows of navigation_edges.csv
  d_pc,                  \* the detector's position
  queue,                 \* find_all_reachable_views: the BFS deque
  reachable,             \* find_all_reachable_views: the reachable set
  expand_count,          \* history: how often each name was added and its edges enumerated
  iterations,            \* history: the iterations of the BFS loop so far
  orphan_candidates,     \* run_analysis: the rows written to potential_view_orphans.csv
  unused_system_views    \* run_analysis: the rows written to unused_system_views.csv

dvars == <<all_views, edge_rows, d_pc, queue, reachable, expand_count, iterations,
           orphan_candidates, unused_system_views>>

VARIABLES
  views,           \* NavigationEdgeGenerator.views: the rows of appsheet_views.csv, in file order
  action_targets,  \* NavigationEdgeGenerator.action_targets: the rows of action_targets.csv
  slices,          \* NavigationEdgeGenerator.slices: the pairs (slice name, source table)
  edges,           \* NavigationEdgeGenerator.edges
  g_pc,            \* the generator's position
  g_next,          \* generate_edges: the index of the next view to process
  max_chain        \* history: the longest parent_chain of a group expansion so far

gvars == <<views, action_targets, slices, edges, g_pc, g_next, max_chain>>

\* the combination of context conditions, applied to three records
VARIABLES
  cond_A,          \* a record of the six context fields
  cond_B,          \* a second record
  cond_C,          \* a third record
  cond_out,        \* the results of combine_conditions on them
  a_pc             \* the position of the combination

avars == <<cond_A, cond_B, cond_C, cond_out, a_pc>>

CombineIdle ==
  /\ cond_A = <<>>
  /\ cond_B = <<>>
  /\ cond_C = <<>>
  /\ cond_out = <<>>
  /\ a_pc = "idle"

\* the parse directory
VARIABLES
  present,         \* the files that exist in the directory
  written          \* the files a component created or rewrote

fvars == <<present, written>>

\* the files the edge generator and the view orphan detector read
InputFiles ==
  {"action_targets.csv", "appsheet_views.csv", "appsheet_actions.csv",
   "appsheet_columns.csv", "appsheet_slices.csv", "navigation_edges.csv"}

\* every input file exists, nothing is written yet
FilesComplete ==
  /\ present = InputFiles
  /\ written = {}

\* the driver of a full run
VARIABLES
  m_pc,            \* the number of stages the driver has gone through
  m_running,       \* the stage that is executing, "" between two stages
  m_log            \* history: the starts, file accesses and ends of the stages

mvars == <<m_pc, m_running, m_log>>

DriverIdle ==
  /\ m_pc = 0
  /\ m_running = "idle"
  /\ m_log = <<>>

\* the navigation expression parser
VARIABLES
  actions_csv,     \* the rows of appsheet_actions.csv
  parsed_targets,  \* NavigationExpressionParser.parsed_targets
  unparseable,     \* NavigationExpressionParser.unparseable
  targets_csv,     \* the rows of action_targets.csv, <<>> while the file is not written
  p_pc,            \* the parser's position
  p_next,          \* parse_actions_csv: the index of the next row
  p_run,           \* the number of the run on this input
  first_run        \* history: the rows the first run wrote

pvars == <<actions_csv, parsed_targets, unparseable, targets_csv, p_pc, p_next, p_run,
           first_run>>

ParserIdle ==
  /\ actions_csv = <<>>
  /\ parsed_targets = <<>>
  /\ unparseable = <<>>
  /\ targets_csv = <<>>
  /\ p_pc = "idle"
  /\ p_next = 1
  /\ p_run = 0
  /\ first_run = <<>>

VARIABLES
  unused_csv,      \* the rows of unused_system_views.csv, as last written
  orphans_csv,     \* the rows of potential_view_orphans.csv, as last written
  exclusions,      \* unused_system_views of a downstream detector
  r_pc,            \* the downstream detector's position
  r_runs,          \* how many times the view orphan detector was run again
  views_csv,       \* the view names of appsheet_views.csv the phantom detector reads
  phantoms,        \* the phantom records find_phantoms has collected
  h_pc             \* the phantom view reference detector's position

rvars == <<unused_csv, orphans_csv, exclusions, r_pc, r_runs, views_csv, phantoms, h_pc>>

\* the phantom view reference detector has not been called
PhantomIdle ==
  /\ views_csv = <<>>
  /\ phantoms = <<>>
  /\ h_pc = "idle"

\* no result file was written, no downstream detector was constructed
ResultsIdle ==
  /\ unused_csv = <<>>
  /\ orphans_csv = <<>>
  /\ exclusions = {}
  /\ r_pc = "idle"
  /\ r_runs = 0
  /\ PhantomIdle

yvars == <<avars, mvars, pvars, rvars>>

xvars == <<fvars, yvars>>

ExtrasIdle == CombineIdle /\ FilesComplete /\ DriverIdle /\ ParserIdle /\ ResultsIdle

vars == <<dvars, gvars, xvars>>

\* show_if samples: empty, an always-false one, and one that is not
ShowIfEmpty == <<>>
ShowIfFalse == <<" ", "=", "F", "a", "l", "s", "e", "(", ")">>
ShowIfSamples == {ShowIfEmpty, ShowIfFalse}

\* (category, position) pairs of a view row
CatPos == {<<"Primary", "First">>, <<"primary", "">>, <<"menu", "">>, <<"ref", "">>}

\* the view names of the three rows, in file order; the third row's name either
\* is a new name or differs from the first row's name by letter case only
ViewNameLists == {<<"Main", "Arch", "Deep">>, <<"Main", "Arch", "main">>}

\* the view type of a row (it only selects the wording of the reason)
ViewTypeOfRow(i) == IF i = 2 THEN "detail" ELSE "table"

ViewRow(name, cp, show_if, sys, vtype) ==
  [view_name |-> name, category |-> cp[1], position |-> cp[2],
   show_if |-> show_if, is_system_view |-> sys, view_type |-> vtype]

\* one edge row as the edge generator writes it
EdgeRow(s, t) ==
  [source_view |-> s, target_view |-> t,
   source_view_normalized |-> Lower(s), target_view_normalized |-> Lower(t)]

(***************************************************************************)
(* The view orphan detector: the code.                                     *)
(***************************************************************************)
\* is_always_false_condition
AlwaysFalseLiterals ==
  { <<"f","a","l","s","e">>, <<"f","a","l","s","e","(",")">>,
    <<"=","f","a","l","s","e">>, <<"=","f","a","l","s","e","(",")">> }

AlwaysFalsePatterns ==
  { << <<"1">>, <<"=">>, <<"2">> >>,
    << <<"=">>, <<"1">>, <<"=">>, <<"2">> >>,
    << <<"\"","a","\"">>, <<"=">>, <<"\"","b","\"">> >>,
    << <<"=">>, <<"\"","a","\"">>, <<"=">>, <<"\"","b","\"">> >>,
    << <<"t","r","u","e">>, <<"=">>, <<"f","a","l","s","e">> >>,
    << <<"=">>, <<"t","r","u","e">>, <<"=">>, <<"f","a","l","s","e">> >> }

is_always_false_condition(condition) ==
  IF condition = <<>> THEN FALSE
  ELSE LET condition_lower == LowerSeq(Strip(condition)) IN
       \/ condition_lower \in AlwaysFalseLiterals
       \/ \E pattern \in AlwaysFalsePatterns : MatchTokens(condition_lower, pattern)

\* load_views: the split into user and system views
IsSystemRow(view) == Lower(view.is_system_view) = "yes"

system_views(view_rows) == SelectSeq(view_rows, IsSystemRow)

IsUserRow(view) == ~IsSystemRow(view)

user_views(view_rows) == SelectSeq(view_rows, IsUserRow)

\* load_views: view_name_by_lower.get(key, default); a later row overwrites an
\* earlier row with the same lower-cased name
view_name_by_lower_get(view_rows, key, default) ==
  LET hits == {i \in DOMAIN view_rows : view_rows[i].view_name # "" /\ Lower(view_rows[i].view_name) = key} IN
  IF hits = {} THEN default
  ELSE view_rows[CHOOSE i \in hits : \A j \in hits : j <= i].view_name

\* build_navigation_graph_from_edges: the canonical (source, target) pairs
CanonicalEdge(view_rows, row) ==
  << view_name_by_lower_get(view_rows, Lower(row.source_view_normalized), row.source_view),
     view_name_by_lower_get(view_rows, Lower(row.target_view_normalized), row.target_view) >>

build_navigation_graph_from_edges(view_rows, rows) ==
  LET pairs == {CanonicalEdge(view_rows, row) :
                  row \in {r \in rows : r.source_view # "" /\ r.target_view # ""}} IN
  [s \in {p[1] : p \in pairs} |-> {p[2] : p \in {e \in pairs : e[1] = s}}]

\* find_all_reachable_views: the root views
IsRootView(view) ==
  /\ ~is_always_false_condition(view.show_if)
  /\ \/ /\ Lower(view.category) = "primary"
        /\ Lower(view.position) \in {"first", "next", "middle", "later", "last"}
     \/ Lower(view.category) = "menu"

root_views(view_rows) == {view_rows[i].view_name : i \in {j \in DOMAIN view_rows : IsRootView(view_rows[j])}}

\* find_all_reachable_views: the targets one loop iteration appends
NewTargets(graph, current, reached) ==
  IF current \in DOMAIN graph THEN {t \in graph[current] : t \notin reached \cup {current}}
  ELSE {}

\* BFSIteration without the test "if current_view_name in reachable: continue"
BFSIterationNoVisitedTest(graph, q, reached, order) ==
  [queue |-> Tail(q) \o order, reachable |-> reached \cup {Head(q)},
   expanded |-> {Head(q)}]

\* find_all_reachable_views: one iteration of the while loop, the targets of
\* the current view appended in the order given
BFSIteration(graph, q, reached, order) ==
  LET current == Head(q) IN
  IF current \in reached
  THEN [queue |-> Tail(q), reachable |-> reached, expanded |-> {}]
  ELSE [queue |-> Tail(q) \o order, reachable |-> reached \cup {current},
        expanded |-> {current}]

\* find_all_reachable_views: the loop run to its end
RECURSIVE BFSLoop(_, _, _)
BFSLoop(graph, q, reached) ==
  IF q = <<>> THEN reached
  ELSE LET it == BFSIteration(graph, q, reached,
                              SetToSeq(NewTargets(graph, Head(q), reached))) IN
       BFSLoop(graph, it.queue, it.reachable)

find_all_reachable_views(view_rows, rows) ==
  BFSLoop(build_navigation_graph_from_edges(view_rows, rows), SetToSeq(root_views(view_rows)), {})

\* orphan_reason without the always-false test that precedes the reachability test
orphan_reason_reachability_only(view, reachable_views) ==
  IF view.view_name \notin reachable_views
  THEN IF view.view_type = "detail" THEN "Detail view not reachable from any root view"
       ELSE IF Lower(view.category) = "ref" THEN "Ref view not reachable from any root view"
       ELSE "View not reachable from any root view"
  ELSE ""

\* find_orphan_candidates: the reason recorded for a user view, "" when the
\* view is not reported
orphan_reason(view, reachable_views) ==
  IF is_always_false_condition(view.show_if) THEN "Always false show_if condition"
  ELSE IF view.view_name \notin reachable_views
  THEN IF view.view_type = "detail" THEN "Detail view not reachable from any root view"
       ELSE IF Lower(view.category) = "ref" THEN "Ref view not reachable from any root view"
       ELSE "View not reachable from any root view"
  ELSE ""

\* find_unused_system_views: the reason recorded for a system view
unused_reason(view, reachable_views) ==
  IF is_always_false_condition(view.show_if) THEN "Always false show_if condition"
  ELSE IF view.view_name \notin reachable_views
  THEN IF view.view_type = "detail" THEN "System detail view not reachable from any root view"
       ELSE IF Lower(view.category) = "ref" THEN "System ref view not reachable from any root view"
       ELSE "System view not reachable from any root view"
  ELSE ""

RECURSIVE find_orphan_candidates_from(_, _)
find_orphan_candidates_from(view_rows, reachable_views) ==
  IF view_rows = <<>> THEN <<>>
  ELSE LET view == Head(view_rows)
           reason == orphan_reason(view, reachable_views)
           rest == find_orphan_candidates_from(Tail(view_rows), reachable_views) IN
       IF reason # ""
       THEN <<[view_name |-> view.view_name, is_orphan |-> "Yes", orphan_reason |-> reason]>> \o rest
       ELSE rest

find_orphan_candidates(view_rows, rows) ==
  find_orphan_candidates_from(user_views(view_rows), find_all_reachable_views(view_rows, rows))

RECURSIVE find_unused_system_views_from(_, _)
find_unused_system_views_from(view_rows, reachable_views) ==
  IF view_rows = <<>> THEN <<>>
  ELSE LET view == Head(view_rows)
           reason == unused_reason(view, reachable_views)
           rest == find_unused_system_views_from(Tail(view_rows), reachable_views) IN
       IF reason # ""
       THEN <<[view_name |-> view.view_name, is_unused |-> "Yes", unused_reason |-> reason]>> \o rest
       ELSE rest

find_unused_system_views(view_rows, rows) ==
  find_unused_system_views_from(system_views(view_rows), find_all_reachable_views(view_rows, rows))

(***************************************************************************)
(* The view orphan detector: its state machine.                            *)
(***************************************************************************)
AllNames == UNION {Range(names) : names \in ViewNameLists}

EdgeUniverse(view_rows) ==
  {EdgeRow(view_rows[i].view_name, view_rows[j].view_name) : i, j \in DOMAIN view_rows}

\* the contents appsheet_views.csv can have: three rows
ViewFiles(NameLists, SysFlags) ==
  {[i \in 1..3 |-> ViewRow(names[i], cp[i], sh[i], sys[i], ViewTypeOfRow(i))] :
     names \in NameLists, cp \in [1..3 -> CatPos], sh \in [1..3 -> ShowIfSamples],
     sys \in [1..3 -> SysFlags]}

\* the contents navigation_edges.csv can have: at most MaxEdges rows between the views
EdgeFiles(view_rows) == {E \in SUBSET EdgeUniverse(view_rows) : Cardinality(E) <= MaxEdges}

\* the detector after construction
DetectorInit ==
  /\ all_views = <<>>
  /\ edge_rows = {}
  /\ queue = <<>>
  /\ reachable = {}
  /\ expand_count = [n \in AllNames |-> 0]
  /\ iterations = 0
  /\ orphan_candidates = <<>>
  /\ unused_system_views = <<>>

DetectorIdle == DetectorInit /\ d_pc = "idle"

\* the generator after construction
GeneratorInit ==
  /\ views = <<>>
  /\ action_targets = <<>>
  /\ slices = {}
  /\ edges = <<>>
  /\ g_next = 1
  /\ max_chain = 0

GeneratorIdle == GeneratorInit /\ g_pc = "idle"

\* load_views: the rows of appsheet_views.csv are read
load_views ==
  /\ d_pc = "load"
  /\ all_views' \in ViewFiles(ViewNameLists, {"No"})
  /\ d_pc' = "bfs_start"
  /\ UNCHANGED <<edge_rows, queue, reachable, expand_count, iterations,
                 orphan_candidates, unused_system_views>>
  /\ UNCHANGED <<gvars, xvars>>

\* find_all_reachable_views, up to the loop: the edge rows are read, the graph
\* is built, the roots are queued
BFSBegin ==
  /\ d_pc = "bfs_start"
  /\ edge_rows' \in EdgeFiles(all_views)
  /\ queue' \in Orders(root_views(all_views))
  /\ reachable' = {}
  /\ d_pc' = "bfs_loop"
  /\ UNCHANGED <<all_views, expand_count, iterations, orphan_candidates,
                 unused_system_views>>
  /\ UNCHANGED <<gvars, xvars>>

\* find_all_reachable_views: one iteration of the while loop
BFSStep ==
  /\ d_pc = "bfs_loop"
  /\ queue # <<>>
  /\ LET graph == build_navigation_graph_from_edges(all_views, edge_rows) IN
     \E order \in Orders(NewTargets(graph, Head(queue), reachable)) :
       LET it == BFSIteration(graph, queue, reachable, order) IN
       /\ queue' = it.queue
       /\ reachable' = it.reachable
       /\ expand_count' = [n \in AllNames |->
                             IF n \in it.expanded THEN expand_count[n] + 1 ELSE expand_count[n]]
  /\ iterations' = iterations + 1
  /\ UNCHANGED <<all_views, edge_rows, d_pc, orphan_candidates, unused_system_views>>
  /\ UNCHANGED <<gvars, xvars>>

\* find_all_reachable_views: the queue is empty, the set is returned
BFSReturn ==
  /\ d_pc = "bfs_loop"
  /\ queue = <<>>
  /\ d_pc' = "bfs_done"
  /\ UNCHANGED <<all_views, edge_rows, queue, reachable, expand_count, iterations,
                 orphan_candidates, unused_system_views>>
  /\ UNCHANGED <<gvars, xvars>>

\* validate_files: the files the detector requires
DetectorRequiredFiles == {"appsheet_views.csv", "appsheet_actions.csv", "navigation_edges.csv"}

\* write_results_to_csv: a result file is written for a non-empty result list
ResultFiles(candidates, unused) ==
  (IF candidates # <<>> THEN {"potential_view_orphans.csv"} ELSE {})
    \cup (IF unused # <<>> THEN {"unused_system_views.csv"} ELSE {})

\* run_analysis with every required file present: the views and the edges are
\* read, both result lists are computed and written
RunAnalysis(view_files) ==
  /\ d_pc = "run_start"
  /\ DetectorRequiredFiles \subseteq present
  /\ all_views' \in view_files
  /\ edge_rows' \in EdgeFiles(all_views')
  /\ orphan_candidates' = find_orphan_candidates(all_views', edge_rows')
  /\ unused_system_views' = find_unused_system_views(all_views', edge_rows')
  /\ reachable' = find_all_reachable_views(all_views', edge_rows')
  /\ present' = present \cup ResultFiles(orphan_candidates', unused_system_views')
  /\ written' = written \cup ResultFiles(orphan_candidates', unused_system_views')
  /\ orphans_csv' = IF orphan_candidates' # <<>> THEN orphan_candidates' ELSE orphans_csv
  /\ unused_csv' = IF unused_system_views' # <<>> THEN unused_system_views' ELSE unused_csv
  /\ d_pc' = "run_done"
  /\ UNCHANGED <<queue, expand_count, iterations>>
  /\ UNCHANGED <<gvars, avars, mvars, pvars, exclusions, r_pc, r_runs, views_csv, phantoms, h_pc>>

run_analysis == RunAnalysis(ViewFiles({<<"Main", "Arch", "Deep">>}, {"Yes", "No"}))

\* run_analysis with a required file missing: validate_files fails and
\* (None, None) is returned
run_analysis_missing ==
  /\ d_pc = "run_start"
  /\ ~(DetectorRequiredFiles \subseteq present)
  /\ d_pc' = "run_failed"
  /\ UNCHANGED <<all_views, edge_rows, queue, reachable, expand_count, iterations,
                 orphan_candidates, unused_system_views>>
  /\ UNCHANGED <<gvars, xvars>>

InitBFS == DetectorInit /\ d_pc = "load" /\ GeneratorIdle /\ ExtrasIdle

NextBFS == load_views \/ BFSBegin \/ BFSStep \/ BFSReturn

SpecBFS == InitBFS /\ [][NextBFS]_vars

InitRun == DetectorInit /\ d_pc = "run_start" /\ GeneratorIdle /\ ExtrasIdle

NextRun == run_analysis

SpecRun == InitRun /\ [][NextRun]_vars

(***************************************************************************)
(* Claims about the view orphan detector.                                  *)
(***************************************************************************)
\* the views the claims call roots
ClaimRoots ==
  {all_views[i].view_name : i \in {j \in DOMAIN all_views :
      /\ ~is_always_false_condition(all_views[j].show_if)
      /\ \/ /\ Lower(all_views[j].category) = "primary"
            /\ Lower(all_views[j].position) \in {"first", "middle", "next", "later", "last"}
         \/ Lower(all_views[j].category) = "menu"}}

\* the least set that contains S and is closed under the edges of the file
RECURSIVE ClosedUnderEdges(_)
ClosedUnderEdges(S) ==
  LET T == S \cup {row.target_view : row \in {r \in edge_rows : r.source_view \in S}} IN
  IF T = S THEN S ELSE ClosedUnderEdges(T)

\* no two view rows have names that differ by letter case only
NamesDistinctIgnoringCase ==
  \A i, j \in DOMAIN all_views :
    Lower(all_views[i].view_name) = Lower(all_views[j].view_name) => i = j

\* C1: find_all_reachable_views returns exactly the least set of view names
\* that contains every root view and is closed under the edges of
\* navigation_edges.csv.
C1_ReachableIsLeastClosedSet ==
  d_pc = "bfs_done" => reachable = ClosedUnderEdges(ClaimRoots)

\* C1, restricted to inputs whose view names are distinct ignoring case: the
\* returned set is the least closed set.
C1_LeastClosedSetWhenNamesDistinct ==
  (d_pc = "bfs_done" /\ NamesDistinctIgnoringCase) => reachable = ClosedUnderEdges(ClaimRoots)

\* how many records of a result list carry the view name
CountOf(list, name) == Cardinality({k \in DOMAIN list : list[k].view_name = name})

HasIncomingEdge(name) == \E row \in edge_rows : row.target_view = name

\* C2: after run_analysis every view is in exactly one class: reachable and
\* not always-false views are in neither output; the others are exactly once
\* in potential_view_orphans (user views) or exactly once in
\* unused_system_views (system views), never in both; a view without incoming
\* edges and of a non-root category is reported; an always-false view is
\* reported with the reason "Always false show_if condition".
C2_EveryViewInExactlyOneClass ==
  d_pc = "run_done" =>
    \A i \in DOMAIN all_views :
      LET view == all_views[i]
          always_false == is_always_false_condition(view.show_if)
          unreached == view.view_name \notin reachable \/ always_false
          nO == CountOf(orphan_candidates, view.view_name)
          nU == CountOf(unused_system_views, view.view_name) IN
      /\ ~unreached => (nO = 0 /\ nU = 0)
      /\ (unreached /\ Lower(view.is_system_view) # "yes") => (nO = 1 /\ nU = 0)
      /\ (unreached /\ Lower(view.is_system_view) = "yes") => (nO = 0 /\ nU = 1)
      /\ (~HasIncomingEdge(view.view_name) /\ Lower(view.category) \notin {"primary", "menu"})
            => nO + nU = 1
      /\ always_false =>
            /\ \A k \in DOMAIN orphan_candidates :
                 orphan_candidates[k].view_name = view.view_name
                   => orphan_candidates[k].orphan_reason = "Always false show_if condition"
            /\ \A k \in DOMAIN unused_system_views :
                 unused_system_views[k].view_name = view.view_name
                   => unused_system_views[k].unused_reason = "Always false show_if condition"

\* C2 witness: one run leaves a view unreported, reports an always-false user
\* view that the traversal reached, and lists an unreached system view.
C2_Witness ==
  /\ d_pc = "run_done"
  /\ \E i, j, k \in DOMAIN all_views :
       /\ all_views[i].view_name \in reachable
       /\ CountOf(orphan_candidates, all_views[i].view_name) = 0
       /\ CountOf(unused_system_views, all_views[i].view_name) = 0
       /\ all_views[j].view_name \in reachable
       /\ is_always_false_condition(all_views[j].show_if)
       /\ CountOf(orphan_candidates, all_views[j].view_name) = 1
       /\ all_views[k].view_name \notin reachable
       /\ CountOf(unused_system_views, all_views[k].view_name) = 1

\* C6: the traversal terminates for every edge set, cycles and self-loops
\* included: the loop runs at most once per root and once per edge, and with
\* a non-empty queue an iteration is possible (with an empty queue the set is
\* returned); a view is added and its edges are enumerated at most once.
C6_TraversalTerminatesExpandingOnce ==
  /\ \A n \in AllNames : expand_count[n] <= 1
  /\ iterations <= Cardinality(root_views(all_views)) + Cardinality(edge_rows)
  /\ (d_pc = "bfs_loop" /\ queue # <<>>) =>
       Orders(NewTargets(build_navigation_graph_from_edges(all_views, edge_rows),
                         Head(queue), reachable)) # {}

\* C6 witness: with a navigation cycle between two reached views, the loop
\* pops a view that is already in the reachable set.
C6_Witness ==
  /\ d_pc = "bfs_loop"
  /\ queue # <<>>
  /\ Head(queue) \in reachable
  /\ \E r1, r2 \in edge_rows :
       /\ r1.source_view = r2.target_view
       /\ r1.target_view = r2.source_view
       /\ r1.source_view # r1.target_view
       /\ {r1.source_view, r1.target_view} \subseteq reachable

(***************************************************************************)
(* The navigation edge generator: its data.                                *)
(*                                                                         *)
(* A "|||"-joined field is the sequence of its alternatives, the empty     *)
(* string being the empty sequence.                                        *)
(***************************************************************************)
\* the strings of the model in Python's string order
SortOrder ==
  <<"Arch", "Deep", "Detail", "Ghost", "Go", "Grp", "GrpA", "GrpB", "GrpC", "Main", "OpenOrders",
    "Orders", "Status", "Tasks",
    "deck", "detail", "form", "gallery", "table">>

\* sorted(S)
Sorted(S) == SelectSeq(SortOrder, LAMBDA x : x \in S)

\* [x.strip() for x in field.split('|||') if x.strip()]
Alternatives(field) == SelectSeq(field, LAMBDA x : x # "" /\ x # " ")

\* targets_by_action[name], in file order
targets_by_action(name) == SelectSeq(action_targets, LAMBDA row : row.source_action = name)

\* self.views.get(view_name, {})
ViewNamed(view_name) ==
  LET hits == {i \in DOMAIN views : views[i].view_name = view_name} IN
  IF hits = {} THEN [view_type |-> "", data_source |-> "", source_table |-> ""]
  ELSE views[CHOOSE i \in hits : \A j \in hits : j <= i]

(***************************************************************************)
(* The navigation edge generator: the code.                                *)
(***************************************************************************)
\* get_view_table
DataSourceOf(view) == IF view.data_source # "" THEN view.data_source ELSE view.source_table

\* get_view_table without the slice lookup
get_view_table_unresolved(view) == DataSourceOf(view)

get_view_table(view) ==
  LET hits == {p \in slices : p[1] = DataSourceOf(view)} IN
  IF hits # {} THEN (CHOOSE p \in hits : TRUE)[2]
  ELSE DataSourceOf(view)

\* is_action_visible_in_detail_view
is_action_visible_in_detail_view(action, view) ==
  IF action.action_prominence \in
       {"Primary", "Display_Prominently", "Display_Inline", "Display_Overlay"}
  THEN IF action.action_prominence = "Display_Inline" /\ action.attach_to_column # ""
       THEN action.attach_to_column \in Range(Alternatives(view.view_columns))
       ELSE TRUE
  ELSE FALSE

\* is_action_visible_in_deck_view
is_action_visible_in_deck_view(action, view) ==
  /\ action.source_action \in Range(Alternatives(view.referenced_actions))
  /\ action.source_action \notin Range(Alternatives(view.event_actions))

\* is_action_visible_in_table_view with the prominences of a detail view
is_action_visible_in_table_view_as_detail(action, view) ==
  is_action_visible_in_detail_view(action, view)

\* is_action_visible_in_table_view
is_action_visible_in_table_view(action, view) ==
  IF action.action_prominence = "Do_Not_Display" THEN FALSE
  ELSE IF action.action_prominence = "Primary" THEN TRUE
  ELSE IF action.action_prominence = "Display_Inline" /\ action.attach_to_column # ""
  THEN action.attach_to_column \in Range(Alternatives(view.view_columns))
  ELSE FALSE

\* is_action_visible_in_view without the Do_Not_Display test
is_action_visible_in_view_by_type_only(action, view) ==
  IF action.source_action \notin Range(Alternatives(view.available_actions)) THEN FALSE
  ELSE IF Lower(view.view_type) = "detail" THEN is_action_visible_in_detail_view(action, view)
  ELSE IF Lower(view.view_type) = "deck" THEN is_action_visible_in_deck_view(action, view)
  ELSE IF Lower(view.view_type) = "table" THEN is_action_visible_in_table_view(action, view)
  ELSE TRUE

\* is_action_visible_in_view
is_action_visible_in_view(action, view) ==
  IF action.action_prominence = "Do_Not_Display" THEN FALSE
  ELSE IF action.source_action \notin Range(Alternatives(view.available_actions)) THEN FALSE
  ELSE IF Lower(view.view_type) = "detail" THEN is_action_visible_in_detail_view(action, view)
  ELSE IF Lower(view.view_type) = "deck" THEN is_action_visible_in_deck_view(action, view)
  ELSE IF Lower(view.view_type) = "table" THEN is_action_visible_in_table_view(action, view)
  ELSE TRUE

\* check_context_conditions: one must_be_* field
MustBeHolds(field, value) ==
  field = <<>> \/ Alternatives(field) = <<>> \/ value \in Range(Alternatives(field))

\* check_context_conditions: one must_not_be_* field
MustNotBeHolds(field, value) ==
  field = <<>> \/ value \notin Range(Alternatives(field))

\* check_context_conditions
check_context_conditions(target_row, view_name) ==
  LET view == ViewNamed(view_name)
      view_type == view.view_type
      view_table == get_view_table(view) IN
  /\ MustBeHolds(target_row.must_be_in_views, view_name)
  /\ MustNotBeHolds(target_row.must_not_be_in_views, view_name)
  /\ MustBeHolds(target_row.must_be_viewtype, view_type)
  /\ MustNotBeHolds(target_row.must_not_be_viewtype, view_type)
  /\ MustBeHolds(target_row.must_be_table, view_table)
  /\ MustNotBeHolds(target_row.must_not_be_table, view_table)

\* combine_conditions: a must_be_* field
CombineMustBeChildOnly(parent_val, child_val) ==
  IF parent_val # <<>> /\ child_val # <<>>
  THEN Sorted(Range(Alternatives(parent_val)) \cap Range(Alternatives(child_val)))
  ELSE child_val

CombineMustBe(parent_val, child_val) ==
  IF parent_val # <<>> /\ child_val # <<>>
  THEN Sorted(Range(Alternatives(parent_val)) \cap Range(Alternatives(child_val)))
  ELSE IF parent_val # <<>> THEN parent_val
  ELSE child_val

CombineMustNotBeIntersection(parent_val, child_val) ==
  IF parent_val # <<>> \/ child_val # <<>>
  THEN Sorted(Range(Alternatives(parent_val)) \cap Range(Alternatives(child_val)))
  ELSE child_val

\* combine_conditions: a must_not_be_* field
CombineMustNotBe(parent_val, child_val) ==
  IF parent_val # <<>> \/ child_val # <<>>
  THEN Sorted(Range(Alternatives(parent_val)) \cup Range(Alternatives(child_val)))
  ELSE child_val

\* combine_conditions
combine_conditions(parent_row, child_row) ==
  [child_row EXCEPT
     !.must_be_in_views = CombineMustBe(parent_row.must_be_in_views, @),
     !.must_not_be_in_views = CombineMustNotBe(parent_row.must_not_be_in_views, @),
     !.must_be_viewtype = CombineMustBe(parent_row.must_be_viewtype, @),
     !.must_not_be_viewtype = CombineMustNotBe(parent_row.must_not_be_viewtype, @),
     !.must_be_table = CombineMustBe(parent_row.must_be_table, @),
     !.must_not_be_table = CombineMustNotBe(parent_row.must_not_be_table, @)]

Max(a, b) == IF a >= b THEN a ELSE b

\* the edge dictionary that process_group_action, process_regular_action and
\* process_event_actions build; top_action is history: the entry of the view's
\* available_actions or event_actions whose processing emitted the edge
MakeEdge(view, target_view, source_action, parent_action, action_type, availability, parent_prominence, child_prominence, event_type, conditions, top_action) ==
  [source_view |-> view.view_name,
   source_view_type |-> view.view_type,
   target_view |-> target_view,
   source_action |-> source_action,
   parent_action |-> parent_action,
   action_type |-> action_type,
   action_availability_type |-> availability,
   parent_prominence |-> parent_prominence,
   child_prominence |-> child_prominence,
   event_type |-> event_type,
   is_self_loop |-> IF view.view_name = target_view THEN "Yes" ELSE "No",
   must_be_in_views |-> conditions.must_be_in_views,
   must_not_be_in_views |-> conditions.must_not_be_in_views,
   must_be_viewtype |-> conditions.must_be_viewtype,
   must_not_be_viewtype |-> conditions.must_not_be_viewtype,
   must_be_table |-> conditions.must_be_table,
   must_not_be_table |-> conditions.must_not_be_table,
   source_view_normalized |-> Lower(view.view_name),
   target_view_normalized |-> Lower(target_view),
   source_action_normalized |-> Lower(source_action),
   top_action |-> top_action]

NoConditions ==
  [must_be_in_views |-> <<>>, must_not_be_in_views |-> <<>>, must_be_viewtype |-> <<>>,
   must_not_be_viewtype |-> <<>>, must_be_table |-> <<>>, must_not_be_table |-> <<>>]

SpecialMarkers == {"DYNAMIC_COLUMN_VALUE", "**PARENT_VIEW**"}

\* the edges a call appended, and the longest parent_chain it built
Emitted(es, depth) == [edges |-> es, depth |-> depth]

Join(r1, r2) == Emitted(r1.edges \o r2.edges, Max(r1.depth, r2.depth))

\* InParentChain with an off-by-one: a group is skipped at its second re-entry only
InParentChainTwice(group_name, parent_chain) ==
  Cardinality({i \in DOMAIN parent_chain : parent_chain[i] = group_name}) >= 2

\* process_group_action: "if group_name in parent_chain: return"
InParentChain(group_name, parent_chain) == group_name \in Range(parent_chain)

RECURSIVE process_group_action(_, _, _, _, _)
RECURSIVE ExpandChildRows(_, _, _, _, _, _, _)
RECURSIVE ExpandChildren(_, _, _, _, _, _)

\* process_group_action: the loop over the target rows of one child action
ExpandChildRows(group_row, view, parent_chain, event_type, top_action, child_name, rows) ==
  IF rows = <<>> THEN Emitted(<<>>, 0)
  ELSE
    LET child_row == Head(rows)
        rest == ExpandChildRows(group_row, view, parent_chain, event_type, top_action,
                                child_name, Tail(rows))
        combined == combine_conditions(group_row, child_row) IN
    IF child_row.action_type = "execute_group"
    THEN Join(process_group_action([combined EXCEPT !.source_action = child_name],
                                   view, parent_chain, event_type, top_action), rest)
    ELSE IF \/ child_row.target_view = ""
            \/ child_row.target_view \in SpecialMarkers
            \/ ~check_context_conditions(combined, view.view_name)
    THEN rest
    ELSE Join(Emitted(<<MakeEdge(view, child_row.target_view, child_name,
                                 group_row.source_action, child_row.action_type, "via_group",
                                 group_row.action_prominence, child_row.action_prominence,
                                 event_type, combined, top_action)>>, 0), rest)

\* process_group_action: the loop over the child actions
ExpandChildren(group_row, view, parent_chain, event_type, top_action, child_actions) ==
  IF child_actions = <<>> THEN Emitted(<<>>, 0)
  ELSE Join(ExpandChildRows(group_row, view, parent_chain, event_type, top_action,
                            Head(child_actions), targets_by_action(Head(child_actions))),
            ExpandChildren(group_row, view, parent_chain, event_type, top_action,
                           Tail(child_actions)))

\* process_group_action; parent_chain is the chain the caller passes
process_group_action(group_row, view, parent_chain, event_type, top_action) ==
  IF group_row.referenced_actions = <<>> THEN Emitted(<<>>, Len(parent_chain))
  ELSE IF InParentChain(group_row.source_action, parent_chain)
  THEN Emitted(<<>>, Len(parent_chain))
  ELSE
    LET chain == Append(parent_chain, group_row.source_action) IN
    IF ~check_context_conditions(group_row, view.view_name)
    THEN Emitted(<<>>, Len(chain))
    ELSE Join(Emitted(<<>>, Len(chain)),
              ExpandChildren(group_row, view, chain, event_type, top_action,
                             Alternatives(group_row.referenced_actions)))

\* process_regular_action
process_regular_action(target_row, view) ==
  IF \/ ~is_action_visible_in_view(target_row, view)
     \/ target_row.target_view = ""
     \/ target_row.target_view \in SpecialMarkers
     \/ ~check_context_conditions(target_row, view.view_name)
  THEN <<>>
  ELSE <<MakeEdge(view, target_row.target_view, target_row.source_action, "",
                  target_row.action_type, "direct", target_row.action_prominence, "", "",
                  target_row, target_row.source_action)>>

\* view_configuration: the empty string, text json.loads rejects, or a JSON
\* object with its Events list; has_auto tells whether the text contains **auto**
NoConfiguration == [kind |-> "empty", has_auto |-> FALSE, Events |-> <<>>]

\* process_event_actions: the event type stamped on the edges of a view
EventTypeOf(view) ==
  LET config == view.view_configuration IN
  IF config.kind = "json" /\ config.Events # <<>> /\ config.Events[1].EventType # ""
  THEN Lower(config.Events[1].EventType)
  ELSE "row selected"

RECURSIVE EventRows(_, _, _, _)
\* process_event_actions: the loop over the target rows of one event action
EventRows(view, event_type, action_name, rows) ==
  IF rows = <<>> THEN Emitted(<<>>, 0)
  ELSE
    LET target_row == Head(rows)
        rest == EventRows(view, event_type, action_name, Tail(rows)) IN
    IF target_row.action_type = "execute_group"
    THEN Join(process_group_action(target_row, view, <<>>, event_type, action_name), rest)
    ELSE IF \/ target_row.target_view = ""
            \/ target_row.target_view \in SpecialMarkers
            \/ ~check_context_conditions(target_row, view.view_name)
    THEN rest
    ELSE Join(Emitted(<<MakeEdge(view, target_row.target_view, action_name, "",
                                 target_row.action_type, "event",
                                 target_row.action_prominence, "", event_type,
                                 target_row, action_name)>>, 0), rest)

RECURSIVE EventActions(_, _, _)
\* process_event_actions: the loop over the event actions
EventActions(view, event_type, action_names) ==
  IF action_names = <<>> THEN Emitted(<<>>, 0)
  ELSE Join(EventRows(view, event_type, Head(action_names),
                      targets_by_action(Head(action_names))),
            EventActions(view, event_type, Tail(action_names)))

\* process_event_actions
process_event_actions(view) ==
  IF view.event_actions = <<>> \/ view.event_actions = <<"**auto**">>
  THEN Emitted(<<>>, 0)
  ELSE EventActions(view, EventTypeOf(view), Alternatives(view.event_actions))

HasExplicitRowSelectedFirst(view) ==
  LET config == view.view_configuration IN
  /\ config.kind = "json"
  /\ config.Events # <<>>
  /\ Lower(config.Events[1].EventType) = "row selected"
  /\ config.Events[1].EventAction # "**auto**"

\* process_auto_navigation: an explicit Row Selected event is configured
HasExplicitRowSelected(view) ==
  LET config == view.view_configuration IN
  /\ config.kind = "json"
  /\ \E i \in DOMAIN config.Events :
       /\ Lower(config.Events[i].EventType) = "row selected"
       /\ config.Events[i].EventAction # "**auto**"

\* process_auto_navigation: the detail views with the same data source
DetailCandidates(data_source) ==
  {i \in DOMAIN views :
     /\ views[i].view_type = "detail"
     /\ \/ views[i].data_source = data_source
        \/ views[i].source_table = data_source}

\* process_auto_navigation
process_auto_navigation(view) ==
  LET data_source == DataSourceOf(view)
      candidates == DetailCandidates(data_source)
      user_details == {i \in candidates : Lower(views[i].is_system_view) # "yes"}
      selected == IF user_details # {} THEN user_details ELSE candidates
      names == Sorted({views[i].view_name : i \in selected}) IN
  IF \/ view.view_type \notin {"table", "deck", "gallery"}
     \/ view.view_configuration.kind = "empty"
     \/ ~view.view_configuration.has_auto
     \/ HasExplicitRowSelected(view)
     \/ data_source = ""
     \/ candidates = {}
  THEN <<>>
  ELSE <<[MakeEdge(view, names[1], "**auto**", "", "auto_navigation", "auto", "", "",
                   "row selected", NoConditions, "**auto**")
            EXCEPT !.source_view_type = "", !.is_self_loop = "No"]>>

\* process_dashboard_containment
process_dashboard_containment(view) ==
  IF view.view_type # "dashboard" \/ view.dashboard_view_entries = <<>> THEN <<>>
  ELSE LET contained_views == Alternatives(view.dashboard_view_entries) IN
       [i \in DOMAIN contained_views |->
          [MakeEdge(view, contained_views[i], "", "", "", "dashboard", "", "", "",
                    NoConditions, "")
             EXCEPT !.source_view_type = "dashboard"]]

RECURSIVE AvailableRows(_, _)
\* process_view: the loop over the target rows of one available action
AvailableRows(view, rows) ==
  IF rows = <<>> THEN Emitted(<<>>, 0)
  ELSE
    LET target_row == Head(rows)
        rest == AvailableRows(view, Tail(rows)) IN
    IF target_row.action_type = "execute_group"
    THEN IF ~is_action_visible_in_view(target_row, view) THEN rest
         ELSE Join(process_group_action(target_row, view, <<>>, "", target_row.source_action),
                   rest)
    ELSE Join(Emitted(process_regular_action(target_row, view), 0), rest)

RECURSIVE AvailableActions(_, _)
\* process_view: the loop over available_actions
AvailableActions(view, action_names) ==
  IF action_names = <<>> THEN Emitted(<<>>, 0)
  ELSE Join(AvailableRows(view, targets_by_action(Head(action_names))),
            AvailableActions(view, Tail(action_names)))

\* process_view: what one view appends to self.edges
process_view(view) ==
  Join(Join(AvailableActions(view, Alternatives(view.available_actions)),
            process_event_actions(view)),
       Emitted(process_auto_navigation(view) \o process_dashboard_containment(view), 0))

(***************************************************************************)
(* The navigation edge generator: its state machine.                       *)
(***************************************************************************)
\* the subsequences of a sequence without repeated entries
SubSeqsOf(q) == {SelectSeq(q, LAMBDA x : x \in S) : S \in SUBSET Range(q)}

TargetRow(name, type, prominence, attach, target, refs, conditions) ==
  [source_action |-> name, source_table |-> "Orders", action_type |-> type,
   action_prominence |-> prominence, attach_to_column |-> attach,
   target_view |-> target, referenced_actions |-> refs,
   must_be_in_views |-> conditions.must_be_in_views,
   must_not_be_in_views |-> conditions.must_not_be_in_views,
   must_be_viewtype |-> conditions.must_be_viewtype,
   must_not_be_viewtype |-> conditions.must_not_be_viewtype,
   must_be_table |-> conditions.must_be_table,
   must_not_be_table |-> conditions.must_not_be_table]

GenViewRow(name, vtype, data_source, available, referenced, events, columns) ==
  [view_name |-> name, view_type |-> vtype, data_source |-> data_source,
   source_table |-> "", is_system_view |-> "No",
   available_actions |-> available, referenced_actions |-> referenced,
   event_actions |-> events, view_columns |-> columns,
   view_configuration |-> NoConfiguration, dashboard_view_entries |-> <<>>]

Prominences ==
  {"Primary", "Display_Prominently", "Display_Inline", "Display_Overlay", "Do_Not_Display"}

\* (action_prominence, attach_to_column) of a target row: the target parser
\* keeps attach_to_column for Display_Inline actions only
ProminenceAttach == {<<p, "">> : p \in Prominences} \cup {<<"Display_Inline", "Status">>}

GeneratorRequiredTargetsOnly == {"action_targets.csv"}

\* run: the files the generator requires
GeneratorRequiredFiles == {"action_targets.csv", "appsheet_views.csv"}

\* run, up to generate_edges: the input files are read
LoadFiles(files) ==
  /\ g_pc = "load"
  /\ GeneratorRequiredFiles \subseteq present
  /\ \E f \in files :
       /\ views' = f.views
       /\ action_targets' = f.action_targets
       /\ slices' = IF "appsheet_slices.csv" \in present THEN f.slices ELSE {}
  /\ g_pc' = "generate"
  /\ UNCHANGED <<edges, g_next, max_chain>>
  /\ UNCHANGED <<dvars, xvars>>

\* generate_edges: process_view for the next view
generate_edges_step ==
  /\ g_pc = "generate"
  /\ g_next <= Len(views)
  /\ LET r == process_view(views[g_next]) IN
       /\ edges' = edges \o r.edges
       /\ max_chain' = Max(max_chain, r.depth)
  /\ g_next' = g_next + 1
  /\ UNCHANGED <<views, action_targets, slices, g_pc>>
  /\ UNCHANGED <<dvars, xvars>>

\* generate_edges: every view is processed, write_edges_csv is called
write_edges_csv ==
  /\ g_pc = "generate"
  /\ g_next > Len(views)
  /\ present' = IF edges # <<>> THEN present \cup {"navigation_edges.csv"} ELSE present
  /\ written' = IF edges # <<>> THEN written \cup {"navigation_edges.csv"} ELSE written
  /\ g_pc' = "done"
  /\ UNCHANGED <<views, action_targets, slices, edges, g_next, max_chain>>
  /\ UNCHANGED <<dvars, yvars>>

\* run with a required file missing: load_action_targets or load_views
\* returns False, and so does run
LoadFailure(files) ==
  /\ g_pc = "load"
  /\ ~(GeneratorRequiredFiles \subseteq present)
  /\ \E f \in files :
       action_targets' = IF "action_targets.csv" \in present THEN f.action_targets ELSE <<>>
  /\ g_pc' = "failed"
  /\ UNCHANGED <<views, slices, edges, g_next, max_chain>>
  /\ UNCHANGED <<dvars, xvars>>

\* inputs for the visibility rules: one view of any type, a navigation action
\* Go and a group action Grp of any prominence, no context constraints
VisFiles ==
  {[views |-> <<GenViewRow("Orders", vtype, "Orders", available, referenced, events, columns)>>,
    action_targets |->
      <<TargetRow("Go", "go_to_view", pa[1], pa[2], "Detail", <<>>, NoConditions),
        TargetRow("Grp", "execute_group", ga[1], ga[2], "", <<"Go">>, NoConditions)>>,
    slices |-> {}] :
     vtype \in {"table", "deck", "gallery", "detail", "form"},
     available \in SubSeqsOf(<<"Go", "Grp">>),
     referenced \in SubSeqsOf(<<"Go", "Grp">>),
     events \in SubSeqsOf(<<"Go", "Grp">>),
     columns \in {<<>>, <<"Status">>},
     pa \in ProminenceAttach, ga \in ProminenceAttach}

\* the generator constructed, the detector not running
InitGenerate == GeneratorInit /\ g_pc = "load" /\ DetectorIdle /\ ExtrasIdle

LoadVis == LoadFiles(VisFiles)

NextVis == LoadVis \/ generate_edges_step \/ write_edges_csv

SpecVis == InitGenerate /\ [][NextVis]_vars

\* inputs for the context constraints: the detail view Orders on the slice
\* OpenOrders of the table Orders and the table view Tasks on the table Tasks;
\* the navigation action Go and the groups GrpA and GrpB, each constraining
\* one kind of attribute (view name, view type or table)
ConstraintKinds == {"in_views", "viewtype", "table"}

\* the two values a constraint of a kind can name
KindValues(kind) ==
  IF kind = "viewtype" THEN <<"detail", "table">> ELSE <<"Orders", "Tasks">>

Conditions(kind, must_be, must_not_be) ==
  IF kind = "in_views"
  THEN [NoConditions EXCEPT !.must_be_in_views = must_be, !.must_not_be_in_views = must_not_be]
  ELSE IF kind = "viewtype"
  THEN [NoConditions EXCEPT !.must_be_viewtype = must_be, !.must_not_be_viewtype = must_not_be]
  ELSE [NoConditions EXCEPT !.must_be_table = must_be, !.must_not_be_table = must_not_be]

ConditionsOfKind(kind) ==
  LET a == KindValues(kind)[1]
      b == KindValues(kind)[2] IN
  {Conditions(kind, must_be, must_not_be) :
     must_be \in {<<>>, <<a>>, <<b>>, <<a, b>>},
     must_not_be \in {<<>>, <<a>>, <<b>>}}

CtxFiles(kind) ==
  {[views |->
      <<GenViewRow("Orders", "detail", "OpenOrders", <<"Go", "GrpA", "GrpB">>, <<>>,
                   events, <<>>),
        GenViewRow("Tasks", "table", "Tasks", <<"Go", "GrpA", "GrpB">>, <<>>, <<>>, <<>>)>>,
    action_targets |->
      <<TargetRow("Go", "go_to_view", "Primary", "", "Detail", <<>>, c_go),
        TargetRow("GrpA", "execute_group", "Primary", "", "", refs, c_a),
        TargetRow("GrpB", "execute_group", "Primary", "", "", <<"Go">>, c_b)>>,
    slices |-> {<<"OpenOrders", "Orders">>}] :
     events \in {<<>>, <<"Go", "GrpA">>},
     refs \in {<<"Go">>, <<"Go", "GrpB">>},
     c_go \in ConditionsOfKind(kind),
     c_a \in ConditionsOfKind(kind),
     c_b \in ConditionsOfKind(kind)}

LoadCtx == \E kind \in ConstraintKinds : LoadFiles(CtxFiles(kind))

NextCtx == LoadCtx \/ generate_edges_step \/ write_edges_csv

SpecCtx == InitGenerate /\ [][NextCtx]_vars

\* inputs for the group cycles: MaxGroups group actions, each referencing any
\* of the groups (itself included) and the navigation action Go
GroupNames == SubSeq(<<"GrpA", "GrpB", "GrpC">>, 1, MaxGroups)

CycleFiles ==
  {[views |-> <<GenViewRow("Orders", "form", "Orders", available, <<>>, events, <<>>)>>,
    action_targets |->
      <<TargetRow("Go", "go_to_view", "Primary", "", "Detail", <<>>, NoConditions)>> \o
      [i \in 1..MaxGroups |->
         TargetRow(GroupNames[i], "execute_group", "Primary", "", "", refs[i], NoConditions)],
    slices |-> {}] :
     available \in {<<>>, <<GroupNames[1]>>, GroupNames},
     events \in {<<>>, <<GroupNames[1]>>},
     refs \in [1..MaxGroups -> SubSeqsOf(<<"Go">> \o GroupNames)]}

LoadCycle == LoadFiles(CycleFiles)

NextCycle == LoadCycle \/ generate_edges_step \/ write_edges_csv

SpecCycle == InitGenerate /\ [][NextCycle]_vars

(***************************************************************************)
(* The navigation edge generator: the visibility rules.                    *)
(***************************************************************************)
\* the views process_view has handled so far
ProcessedViews == {views[i] : i \in {j \in DOMAIN views : j < g_next}}

ListedIn(field, name) == name \in Range(Alternatives(field))

\* the edges the entry a of a view's available_actions produced itself: its
\* direct edge, or the edges of its own expansion as a group
OwnEdges(view, a) ==
  {i \in DOMAIN edges :
     /\ edges[i].source_view = view.view_name
     /\ edges[i].top_action = a
     /\ edges[i].event_type = ""
     /\ edges[i].action_availability_type \in {"direct", "via_group"}}

\* the edges of a (view, action) pair
PairEdges(view, a) ==
  {i \in DOMAIN edges : edges[i].source_view = view.view_name /\ edges[i].source_action = a}

\* the table rule: Primary, or Display_Inline attached to a displayed column
TableRule(row, view) ==
  \/ row.action_prominence = "Primary"
  \/ /\ row.action_prominence = "Display_Inline"
     /\ ListedIn(view.view_columns, row.attach_to_column)

\* C7 as stated: in a table view an action of available_actions leads to a
\* direct edge or to its expansion as a group only under the table rule, and an
\* action of prominence Display_Prominently or Display_Overlay in a table
\* view's available_actions has no edge at all for its (view, action) pair
C7_TableRuleAndNoEdgeForThePair ==
  \A view \in ProcessedViews : \A j \in DOMAIN action_targets :
    LET row == action_targets[j] IN
    (view.view_type = "table" /\ ListedIn(view.available_actions, row.source_action)) =>
      /\ OwnEdges(view, row.source_action) # {} => TableRule(row, view)
      /\ row.action_prominence \in {"Display_Prominently", "Display_Overlay"} =>
           PairEdges(view, row.source_action) = {}

\* C7 amended: in a table view an action of available_actions leads to a
\* direct edge or to its own expansion as a group only under the table rule;
\* an action of prominence Display_Prominently or Display_Overlay yields no
\* direct edge and no expansion of its own, every edge of its (view, action)
\* pair being a via_group edge of another group or an event edge
C7_TableRuleForOwnEdges ==
  \A view \in ProcessedViews : \A j \in DOMAIN action_targets :
    LET row == action_targets[j] IN
    (view.view_type = "table" /\ ListedIn(view.available_actions, row.source_action)) =>
      /\ OwnEdges(view, row.source_action) # {} => TableRule(row, view)
      /\ row.action_prominence \in {"Display_Prominently", "Display_Overlay"} =>
           \A i \in PairEdges(view, row.source_action) :
             \/ edges[i].action_availability_type = "event"
             \/ /\ edges[i].action_availability_type = "via_group"
                /\ edges[i].parent_action # row.source_action

\* C7 witness: a table view lists a Display_Overlay action Go and the group
\* Grp, Display_Inline on the displayed column Status; the only edge is the
\* via_group edge of Grp, whose source action is Go
C7_Witness ==
  /\ g_pc = "done"
  /\ views[1].view_type = "table"
  /\ views[1].available_actions = <<"Go", "Grp">>
  /\ views[1].event_actions = <<>>
  /\ views[1].view_columns = <<"Status">>
  /\ action_targets[1].action_prominence = "Display_Overlay"
  /\ action_targets[2].action_prominence = "Display_Inline"
  /\ action_targets[2].attach_to_column = "Status"
  /\ Len(edges) = 1
  /\ edges[1].action_availability_type = "via_group"
  /\ edges[1].source_action = "Go"
  /\ edges[1].parent_action = "Grp"

\* C8: in a deck view and in a gallery view an action of available_actions
\* produces a direct edge or its expansion as a group only if its name is in
\* referenced_actions and not in event_actions
C8_DeckAndGalleryRule ==
  \A view \in ProcessedViews : \A j \in DOMAIN action_targets :
    LET row == action_targets[j] IN
    (view.view_type \in {"deck", "gallery"}
       /\ ListedIn(view.available_actions, row.source_action)
       /\ OwnEdges(view, row.source_action) # {}) =>
      /\ ListedIn(view.referenced_actions, row.source_action)
      /\ ~ListedIn(view.event_actions, row.source_action)

\* C9: in a detail view an action of available_actions is visible (it has its
\* direct edge or its expansion) if and only if its prominence is one of the
\* four displayed ones and, when Display_Inline, its attached column is in
\* view_columns, whatever attach_to_column holds
C9_DetailRule ==
  \A view \in ProcessedViews : \A j \in DOMAIN action_targets :
    LET row == action_targets[j] IN
    (view.view_type = "detail" /\ ListedIn(view.available_actions, row.source_action)) =>
      (OwnEdges(view, row.source_action) # {} <=>
         /\ row.action_prominence \in
              {"Primary", "Display_Prominently", "Display_Inline", "Display_Overlay"}
         /\ row.action_prominence = "Display_Inline" =>
              ListedIn(view.view_columns, row.attach_to_column))

\* C10 as stated: a Do_Not_Display action is never visible, no direct edge has
\* a Do_Not_Display source action, and no Do_Not_Display group of
\* available_actions is expanded into via_group edges
C10_DoNotDisplayNeverExpanded ==
  \A view \in ProcessedViews : \A j \in DOMAIN action_targets :
    LET row == action_targets[j] IN
    row.action_prominence = "Do_Not_Display" =>
      /\ ~is_action_visible_in_view(row, view)
      /\ \A i \in PairEdges(view, row.source_action) :
           edges[i].action_availability_type # "direct"
      /\ ListedIn(view.available_actions, row.source_action) =>
           \A i \in DOMAIN edges :
             ~ /\ edges[i].source_view = view.view_name
               /\ edges[i].action_availability_type = "via_group"
               /\ edges[i].parent_action = row.source_action

\* C10 amended: a Do_Not_Display action is never visible, no direct edge has a
\* Do_Not_Display source action, and no Do_Not_Display group is expanded on
\* account of its entry in available_actions: its via_group edges all carry an
\* event type or descend from another entry
C10_DoNotDisplayNotExpandedByAvailableActions ==
  \A view \in ProcessedViews : \A j \in DOMAIN action_targets :
    LET row == action_targets[j] IN
    row.action_prominence = "Do_Not_Display" =>
      /\ ~is_action_visible_in_view(row, view)
      /\ \A i \in PairEdges(view, row.source_action) :
           edges[i].action_availability_type # "direct"
      /\ OwnEdges(view, row.source_action) = {}

\* C10 witness: a form view lists the Do_Not_Display actions Go and Grp in
\* available_actions and Grp in event_actions too; the only edge is the one of
\* the event expansion of Grp
C10_Witness ==
  /\ g_pc = "done"
  /\ views[1].view_type = "form"
  /\ views[1].available_actions = <<"Go", "Grp">>
  /\ views[1].event_actions = <<"Grp">>
  /\ action_targets[1].action_prominence = "Do_Not_Display"
  /\ action_targets[2].action_prominence = "Do_Not_Display"
  /\ Len(edges) = 1
  /\ edges[1].action_availability_type = "via_group"
  /\ edges[1].parent_action = "Grp"
  /\ edges[1].event_type = "row selected"

(***************************************************************************)
(* The navigation edge generator: the context constraints.                 *)
(***************************************************************************)
\* the view an edge starts from
SourceView(e) == CHOOSE v \in Range(views) : v.view_name = e.source_view

\* a view's table, its data source resolved through the slices
SliceResolvedTable(view) ==
  IF \E p \in slices : p[1] = view.data_source
  THEN (CHOOSE p \in slices : p[1] = view.data_source)[2]
  ELSE view.data_source

\* the six checks of a record of constraint fields against a view
SatisfiedBy(c, view) ==
  /\ c.must_be_in_views # <<>> => view.view_name \in Range(c.must_be_in_views)
  /\ view.view_name \notin Range(c.must_not_be_in_views)
  /\ c.must_be_viewtype # <<>> => view.view_type \in Range(c.must_be_viewtype)
  /\ view.view_type \notin Range(c.must_not_be_viewtype)
  /\ c.must_be_table # <<>> => SliceResolvedTable(view) \in Range(c.must_be_table)
  /\ SliceResolvedTable(view) \notin Range(c.must_not_be_table)

\* C3: every direct, via_group and event edge satisfies its own recorded
\* constraint fields against its source view: each non-empty must_be_* field
\* lists the view's name, type or slice-resolved table, and no must_not_be_*
\* field lists it; a candidate failing a check is not among the edges
C3_EdgesSatisfyRecordedConstraints ==
  \A i \in DOMAIN edges :
    edges[i].action_availability_type \in {"direct", "via_group", "event"} =>
      SatisfiedBy(edges[i], SourceView(edges[i]))

\* C3 witness: a via_group edge from the view Orders on the slice OpenOrders
\* records must_be_table = Orders, an event edge was emitted too, and the view
\* Tasks, which lists the same actions, has no edge
C3_Witness ==
  /\ g_pc = "done"
  /\ \E i \in DOMAIN edges :
       /\ edges[i].action_availability_type = "via_group"
       /\ edges[i].source_view = "Orders"
       /\ edges[i].must_be_table = <<"Orders">>
  /\ \E i \in DOMAIN edges : edges[i].action_availability_type = "event"
  /\ \A i \in DOMAIN edges : edges[i].source_view # "Tasks"

\* the target row of an action
RowOf(name) == action_targets[CHOOSE j \in DOMAIN action_targets :
                                action_targets[j].source_action = name]

\* C4: a via_group edge from a view through a group G to a child C exists
\* only if the view satisfies the constraints of G and those of C: it is in
\* every non-empty must_be_* set of either and in no must_not_be_* set of
\* either; a group and a child with disjoint must_be_* sets give no edge
C4_GroupAndChildJointlySatisfied ==
  \A i \in DOMAIN edges :
    edges[i].action_availability_type = "via_group" =>
      /\ SatisfiedBy(RowOf(edges[i].parent_action), SourceView(edges[i]))
      /\ SatisfiedBy(RowOf(edges[i].top_action), SourceView(edges[i]))
      /\ SatisfiedBy(RowOf(edges[i].source_action), SourceView(edges[i]))

(***************************************************************************)
(* The navigation edge generator: cyclic groups.                           *)
(***************************************************************************)
\* the group actions of action_targets.csv
GroupActions ==
  {action_targets[j].source_action :
     j \in {k \in DOMAIN action_targets : action_targets[k].action_type = "execute_group"}}

\* C5: with group actions referencing each other or themselves in any way,
\* process_view returns for every view, no chain of nested expansions is
\* longer than the number of group actions, and a group whose only child is
\* itself is the parent action of no edge
C5_GroupCyclesTerminateWithBoundedChains ==
  /\ max_chain <= Cardinality(GroupActions)
  /\ (g_pc = "generate" /\ g_next <= Len(views)) =>
       process_view(views[g_next]).depth <= Cardinality(GroupActions)
  /\ \A j \in DOMAIN action_targets :
       (action_targets[j].action_type = "execute_group"
          /\ action_targets[j].referenced_actions = <<action_targets[j].source_action>>) =>
         \A i \in DOMAIN edges : edges[i].parent_action # action_targets[j].source_action

\* C5 witness: GrpA references GrpB, GrpB references Go and GrpA; the view
\* lists GrpA: the chain GrpA, GrpB was built, GrpA was skipped inside it and
\* the one edge is that of Go under GrpB
C5_Witness ==
  /\ g_pc = "done"
  /\ RowOf("GrpA").referenced_actions = <<"GrpB">>
  /\ RowOf("GrpB").referenced_actions = <<"Go", "GrpA">>
  /\ views[1].available_actions = <<"GrpA">>
  /\ views[1].event_actions = <<>>
  /\ max_chain = 2
  /\ Len(edges) = 1
  /\ edges[1].parent_action = "GrpB"

(***************************************************************************)
(* The navigation edge generator: automatic row navigation.                *)
(***************************************************************************)
\* view_configuration with Row Selected set to **auto**
AutoConfiguration ==
  [kind |-> "json", has_auto |-> TRUE,
   Events |-> <<[EventType |-> "Row Selected", EventAction |-> "**auto**"]>>]

\* view_configuration with an explicit Row Selected action next to an **auto** event
ExplicitConfiguration ==
  [kind |-> "json", has_auto |-> TRUE,
   Events |-> <<[EventType |-> "Row Selected", EventAction |-> "Go"],
                [EventType |-> "Form Saved", EventAction |-> "**auto**"]>>]

\* the table the views parser stores in source_table for a data source
ParsedSourceTable(data_source) == IF data_source = "OpenOrders" THEN "Orders" ELSE data_source

AutoViewRow(name, vtype, data_source, sys, config) ==
  [GenViewRow(name, vtype, data_source, <<>>, <<>>, <<>>, <<>>)
     EXCEPT !.source_table = ParsedSourceTable(data_source),
            !.is_system_view = sys,
            !.view_configuration = config]

\* inputs for the automatic navigation: the view Main on the table Orders or on
\* its slice OpenOrders, and the views Deep and Arch, user-created or not, on
\* Orders, OpenOrders or Tasks
AutoFiles(vtype) ==
  {[views |-> <<AutoViewRow("Main", vtype, main_source, "No", config),
                AutoViewRow("Deep", "detail", deep_source, deep_sys, NoConfiguration),
                AutoViewRow("Arch", arch_type, arch_source, arch_sys, NoConfiguration)>>,
    action_targets |-> <<>>,
    slices |-> {<<"OpenOrders", "Orders">>}] :
     main_source \in {"Orders", "OpenOrders"},
     config \in {NoConfiguration, AutoConfiguration, ExplicitConfiguration},
     deep_source \in {"Orders", "OpenOrders", "Tasks"},
     deep_sys \in {"No", "Yes"},
     arch_type \in {"detail", "form"},
     arch_source \in {"Orders", "OpenOrders", "Tasks"},
     arch_sys \in {"No", "Yes"}}

LoadAuto == \E vtype \in {"table", "deck", "gallery", "detail"} : LoadFiles(AutoFiles(vtype))

NextAuto == LoadAuto \/ generate_edges_step \/ write_edges_csv

SpecAuto == InitGenerate /\ [][NextAuto]_vars

\* the view's configuration marks row selection as **auto**
MarksRowSelectionAuto(view) ==
  /\ view.view_configuration.kind = "json"
  /\ \E i \in DOMAIN view.view_configuration.Events :
       /\ Lower(view.view_configuration.Events[i].EventType) = "row selected"
       /\ view.view_configuration.Events[i].EventAction = "**auto**"

\* the detail views sharing a view's resolved data source
SharingDetails(view) ==
  {d \in Range(views) :
     d.view_type = "detail" /\ SliceResolvedTable(d) = SliceResolvedTable(view)}

\* the alphabetically first name of a non-empty set of views
FirstName(S) == Sorted({d.view_name : d \in S})[1]

AutoEdges(view) ==
  {i \in DOMAIN edges :
     /\ edges[i].source_view = view.view_name
     /\ edges[i].action_availability_type = "auto"}

\* C11: a table, deck or gallery view marking row selection as **auto**, with
\* a detail view on its resolved data source, has exactly one auto edge, with
\* the six constraint fields empty, to the alphabetically first user-created
\* detail view on that data source, or to the first system one if there is none
C11_OneAutoEdgeToTheFirstDetailView ==
  \A view \in ProcessedViews :
    (view.view_type \in {"table", "deck", "gallery"}
       /\ MarksRowSelectionAuto(view)
       /\ SharingDetails(view) # {}) =>
      LET user == {d \in SharingDetails(view) : d.is_system_view # "Yes"} IN
      /\ Cardinality(AutoEdges(view)) = 1
      /\ \A i \in AutoEdges(view) :
           /\ SatisfiedBy(edges[i], view)
           /\ \A c \in {edges[i].must_be_in_views, edges[i].must_not_be_in_views,
                        edges[i].must_be_viewtype, edges[i].must_not_be_viewtype,
                        edges[i].must_be_table, edges[i].must_not_be_table} : c = <<>>
           /\ edges[i].target_view =
                IF user # {} THEN FirstName(user) ELSE FirstName(SharingDetails(view))

(***************************************************************************)
(* The combination of context conditions as an operation on records:       *)
(* combine_conditions applied to two and to three records of one kind.     *)
(***************************************************************************)
ValueSet(field) == Range(Alternatives(field))

\* the six fields as value sets agree
SameValueSets(r1, r2) ==
  /\ ValueSet(r1.must_be_in_views) = ValueSet(r2.must_be_in_views)
  /\ ValueSet(r1.must_not_be_in_views) = ValueSet(r2.must_not_be_in_views)
  /\ ValueSet(r1.must_be_viewtype) = ValueSet(r2.must_be_viewtype)
  /\ ValueSet(r1.must_not_be_viewtype) = ValueSet(r2.must_not_be_viewtype)
  /\ ValueSet(r1.must_be_table) = ValueSet(r2.must_be_table)
  /\ ValueSet(r1.must_not_be_table) = ValueSet(r2.must_not_be_table)

InitCombine ==
  /\ \E kind \in ConstraintKinds :
       /\ cond_A \in ConditionsOfKind(kind)
       /\ cond_B \in ConditionsOfKind(kind)
       /\ cond_C \in ConditionsOfKind(kind)
  /\ cond_out = <<>>
  /\ a_pc = "pair"
  /\ DetectorIdle
  /\ GeneratorIdle
  /\ FilesComplete
  /\ DriverIdle
  /\ ResultsIdle
  /\ ParserIdle

\* combine_conditions(A, B) and combine_conditions(B, A)
combine_pair ==
  /\ a_pc = "pair"
  /\ cond_out' = [ab |-> combine_conditions(cond_A, cond_B),
                  ba |-> combine_conditions(cond_B, cond_A)]
  /\ a_pc' = "triple"
  /\ UNCHANGED <<cond_A, cond_B, cond_C, dvars, gvars, fvars, mvars, pvars, rvars>>

\* combine_conditions(combine_conditions(A, B), C) and
\* combine_conditions(A, combine_conditions(B, C))
combine_triple ==
  /\ a_pc = "triple"
  /\ cond_out' = [ab |-> cond_out.ab,
                  ba |-> cond_out.ba,
                  ab_c |-> combine_conditions(cond_out.ab, cond_C),
                  a_bc |-> combine_conditions(cond_A, combine_conditions(cond_B, cond_C))]
  /\ a_pc' = "done"
  /\ UNCHANGED <<cond_A, cond_B, cond_C, dvars, gvars, fvars, mvars, pvars, rvars>>

NextCombine == combine_pair \/ combine_triple

SpecCombine == InitCombine /\ [][NextCombine]_vars

\* C16: combining three records gives the same value set in each of the six
\* fields whichever pair is combined first
C16_CombineAssociative ==
  a_pc = "done" => SameValueSets(cond_out.ab_c, cond_out.a_bc)

\* C17: combining two records gives the same value set in each of the six
\* fields in either order, also when a field of one side is empty
C17_CombineCommutative ==
  a_pc \in {"triple", "done"} => SameValueSets(cond_out.ab, cond_out.ba)

\* two records whose must_be field of a kind is empty on exactly one side,
\* and two whose must_be fields are both non-empty, have been combined
C17_Witness ==
  /\ a_pc = "triple"
  /\ cond_A.must_be_table = <<>>
  /\ cond_B.must_be_table = <<"Orders", "Tasks">>
  /\ cond_A.must_not_be_table = <<"Orders">>
  /\ cond_B.must_not_be_table = <<"Tasks">>
  /\ ValueSet(cond_out.ab.must_be_table) = {"Orders", "Tasks"}
  /\ ValueSet(cond_out.ab.must_not_be_table) = {"Orders", "Tasks"}

(***************************************************************************)
(* Missing input files: the edge generator or the view orphan detector is  *)
(* run on a directory holding any subset of the input files.               *)
(***************************************************************************)
\* view files for the detector: no show_if, two category settings
SmallViewFiles ==
  {f \in ViewFiles({<<"Main", "Arch", "Deep">>}, {"Yes", "No"}) :
     \A i \in DOMAIN f : f[i].show_if = ShowIfEmpty /\ f[i].category \in {"Primary", "ref"}}

InitFiles ==
  /\ present \in SUBSET InputFiles
  /\ written = {}
  /\ \/ GeneratorInit /\ g_pc = "load" /\ DetectorIdle
     \/ DetectorInit /\ d_pc = "run_start" /\ GeneratorIdle
  /\ CombineIdle
  /\ ResultsIdle
  /\ DriverIdle
  /\ ParserIdle

\* the files the generator is started on: those of a table view
TableViewFiles == AutoFiles("table")

NextFiles ==
  \/ LoadFiles(TableViewFiles)
  \/ LoadFailure(TableViewFiles)
  \/ generate_edges_step
  \/ write_edges_csv
  \/ RunAnalysis(SmallViewFiles)
  \/ run_analysis_missing

SpecFiles == InitFiles /\ [][NextFiles]_vars

\* the files that existed when the component was started
PresentAtStart == present \ written

\* C18: with a required file missing the component returns its failure value,
\* computes nothing and writes no file; with the required files present it
\* never returns the failure value, whichever optional file is missing
C18_MissingRequiredFileFailsCleanly ==
  LET generator_required == {"action_targets.csv", "appsheet_views.csv"}
      detector_required ==
        {"appsheet_views.csv", "appsheet_actions.csv", "navigation_edges.csv"} IN
  /\ (g_pc # "idle" /\ ~(generator_required \subseteq PresentAtStart)) =>
       /\ g_pc \in {"load", "failed"}
       /\ edges = <<>>
       /\ written = {}
  /\ (d_pc # "idle" /\ ~(detector_required \subseteq PresentAtStart)) =>
       /\ d_pc \in {"run_start", "run_failed"}
       /\ orphan_candidates = <<>> /\ unused_system_views = <<>> /\ reachable = {}
       /\ written = {}
  /\ (g_pc # "idle" /\ generator_required \subseteq PresentAtStart) => g_pc # "failed"
  /\ (d_pc # "idle" /\ detector_required \subseteq PresentAtStart) => d_pc # "run_failed"

\* the generator has failed with only appsheet_views.csv missing
C18_Witness ==
  /\ g_pc = "failed"
  /\ InputFiles \ present = {"appsheet_views.csv"}

(***************************************************************************)
(* The driver of a full run: run_all_parsers, then the orphan detectors.   *)
(***************************************************************************)
StagesEdgesBeforeTargets ==
  <<"slice_parser", "column_parser", "format_rules_parser", "actions_parser", "views_parser",
    "navigation_edge_generator", "action_target_parser",
    "view_orphan_detector", "column_orphan_detector", "action_orphan_detector",
    "format_rule_orphan_detector", "slice_orphan_detector", "phantom_view_detector">>

\* the calls of run_all_parsers and of main, in program order
Stages ==
  <<"slice_parser", "column_parser", "format_rules_parser", "actions_parser", "views_parser",
    "action_target_parser", "navigation_edge_generator",
    "view_orphan_detector", "column_orphan_detector", "action_orphan_detector",
    "format_rule_orphan_detector", "slice_orphan_detector", "phantom_view_detector">>

\* the stages main calls outside any try block
Detectors ==
  {"view_orphan_detector", "column_orphan_detector", "action_orphan_detector",
   "format_rule_orphan_detector", "slice_orphan_detector", "phantom_view_detector"}

\* the detectors that open unused_system_views.csv when it exists
UnusedViewsReaders ==
  {"column_orphan_detector", "action_orphan_detector", "format_rule_orphan_detector"}

InitDriver ==
  /\ m_pc = 0
  /\ m_running = ""
  /\ m_log = <<>>
  /\ FilesComplete
  /\ DetectorIdle
  /\ GeneratorIdle
  /\ CombineIdle
  /\ ResultsIdle
  /\ ParserIdle

\* the driver calls the next stage
stage_call ==
  /\ m_running = ""
  /\ m_pc < Len(Stages)
  /\ m_running' = Stages[m_pc + 1]
  /\ m_log' = Append(m_log, <<"start", Stages[m_pc + 1]>>)
  /\ UNCHANGED <<m_pc, fvars, dvars, gvars, avars, pvars, rvars>>

\* the view orphan detector writes unused_system_views.csv
write_unused_system_views ==
  /\ m_running = "view_orphan_detector"
  /\ m_log[Len(m_log)][1] = "start"
  /\ present' = present \cup {"unused_system_views.csv"}
  /\ written' = written \cup {"unused_system_views.csv"}
  /\ m_log' = Append(m_log, <<"write", m_running>>)
  /\ UNCHANGED <<m_pc, m_running, dvars, gvars, avars, pvars, rvars>>

\* a detector finds unused_system_views.csv and reads it
read_unused_system_views ==
  /\ m_running \in UnusedViewsReaders
  /\ m_log[Len(m_log)][1] = "start"
  /\ "unused_system_views.csv" \in present
  /\ m_log' = Append(m_log, <<"read", m_running>>)
  /\ UNCHANGED <<m_pc, m_running, fvars, dvars, gvars, avars, pvars, rvars>>

\* the stage returns to the driver, or fails inside a try block of the driver
stage_return ==
  /\ m_running \notin {"", "idle"}
  /\ m_pc' = m_pc + 1
  /\ m_running' = ""
  /\ m_log' = Append(m_log, <<"end", m_running>>)
  /\ UNCHANGED <<fvars, dvars, gvars, avars, pvars, rvars>>

\* a detector raises: the exception leaves main, no further stage is called
stage_raise ==
  /\ m_running \in Detectors
  /\ m_pc' = Len(Stages)
  /\ m_running' = ""
  /\ m_log' = Append(m_log, <<"raise", m_running>>)
  /\ UNCHANGED <<fvars, dvars, gvars, avars, pvars, rvars>>

NextDriver ==
  \/ stage_call
  \/ write_unused_system_views
  \/ read_unused_system_views
  \/ stage_return
  \/ stage_raise

SpecDriver == InitDriver /\ [][NextDriver]_vars

\* the log holds the entry e before position i
Before(e, i) == \E j \in 1..(i - 1) : m_log[j] = e

\* C19: a stage starts only when no other stage is executing; the edge
\* generator starts after the target parser has ended, the view orphan detector
\* after the edge generator has ended, the column, action, format-rule and
\* slice detectors in this order after the view orphan detector has ended,
\* and unused_system_views.csv is read only after that
C19_StagesStrictlySequential ==
  LET order == <<"action_target_parser", "navigation_edge_generator", "view_orphan_detector",
                 "column_orphan_detector", "action_orphan_detector",
                 "format_rule_orphan_detector", "slice_orphan_detector">> IN
  \A i \in DOMAIN m_log :
    /\ (m_log[i][1] = "start" /\ i > 1) => m_log[i - 1][1] = "end"
    /\ \A k \in 2..Len(order) :
         m_log[i] = <<"start", order[k]>> => Before(<<"end", order[k - 1]>>, i)
    /\ m_log[i][1] = "read" => Before(<<"end", "view_orphan_detector">>, i)

\* the action orphan detector has read the file the view orphan detector wrote
C19_Witness ==
  /\ Len(m_log) > 3
  /\ m_log[Len(m_log)] = <<"read", "action_orphan_detector">>
  /\ Before(<<"write", "view_orphan_detector">>, Len(m_log))

(***************************************************************************)
(* The navigation expression parser. A formula is a sequence of tokens:    *)
(* IF( IFS( OR( ) , and the line break, the comparison CONTEXT("k") op "v",*)
(* the call LINKTOVIEW("v"), the string "#control=v", the column reference *)
(* [chars], and any other text. The parser's scans over the characters of  *)
(* a formula are scans over its tokens.                                    *)
(***************************************************************************)
Tok(t, k, op, v) == [t |-> t, k |-> k, op |-> op, v |-> v, chars |-> <<>>]

IfOpen == Tok("IF(", "", "", "")
IfsOpen == Tok("IFS(", "", "", "")
OrOpen == Tok("OR(", "", "", "")
Close == Tok(")", "", "", "")
Comma == Tok(",", "", "", "")
Newline == Tok("\n", "", "", "")
Context(k, op, v) == Tok("CONTEXT", k, op, v)
LinkToView(v) == Tok("LINKTOVIEW", "", "", v)
Fragment(v) == Tok("#control=", "", "", v)
Text(v) == Tok("text", "", "", v)
ColumnRef(chars) == [t |-> "[]", k |-> "", op |-> "", v |-> "", chars |-> chars]

\* the characters the class [\w\s] of the column reference pattern accepts
WordOrSpace ==
  {"a", "b", "c", "d", "e", "f", "g", "h", "i", "j", "k", "l", "m", "n", "o", "p", "q", "r",
   "s", "t", "u", "v", "w", "x", "y", "z", "A", "B", "C", "D", "E", "F", "G", "H", "I", "J",
   "K", "L", "M", "N", "O", "P", "Q", "R", "S", "T", "U", "V", "W", "X", "Y", "Z", "0", "1",
   "2", "3", "4", "5", "6", "7", "8", "9", "_", " ", "\t", "\n"}

\* re.match(r'^\[[\w\s]+\]$', expression)
IsSimpleColumnReference(e) ==
  /\ Len(e) = 1
  /\ e[1].t = "[]"
  /\ e[1].chars # <<>>
  /\ \A i \in DOMAIN e[1].chars : e[1].chars[i] \in WordOrSpace

RECURSIVE StripTokensLeft(_)
StripTokensLeft(e) ==
  IF e # <<>> /\ Head(e).t = "\n" THEN StripTokensLeft(Tail(e)) ELSE e

RECURSIVE StripTokensRight(_)
StripTokensRight(e) ==
  IF e # <<>> /\ e[Len(e)].t = "\n" THEN StripTokensRight(SubSeq(e, 1, Len(e) - 1)) ELSE e

\* str.strip() on a formula
StripTokens(e) == StripTokensRight(StripTokensLeft(e))

\* str.rstrip(',') on a formula
RECURSIVE RStripCommas(_)
RStripCommas(e) ==
  IF e # <<>> /\ e[Len(e)].t = "," THEN RStripCommas(SubSeq(e, 1, Len(e) - 1)) ELSE e

HasToken(e, t) == \E i \in DOMAIN e : e[i].t = t

\* paren_depth after a token
DepthAfter(depth, tok) ==
  IF tok.t \in {"IF(", "IFS(", "OR("} THEN depth + 1
  ELSE IF tok.t = ")" THEN depth - 1
  ELSE depth

\* the position of the first comma at paren_depth 0 from position i on, or 0
RECURSIVE TopLevelComma(_, _, _)
TopLevelComma(e, i, depth) ==
  IF i > Len(e) THEN 0
  ELSE IF e[i].t = "," /\ depth = 0 THEN i
  ELSE TopLevelComma(e, i + 1, DepthAfter(depth, e[i]))

\* split_condition_action: the line is split at its first top-level comma
split_condition_action(line) ==
  LET i == TopLevelComma(line, 1, 0) IN
  IF i = 0 THEN <<line>>
  ELSE <<SubSeq(line, 1, i - 1), SubSeq(line, i + 1, Len(line))>>

\* parse_if_expression: the content is split at its first two top-level
\* commas; the text after the last split is a part only when it is not empty
SplitIfContent(content) ==
  LET first == split_condition_action(content) IN
  IF Len(first) = 1 THEN IF content = <<>> THEN <<>> ELSE <<StripTokens(content)>>
  ELSE LET second == split_condition_action(first[2]) IN
       IF Len(second) = 1
       THEN IF first[2] = <<>> THEN <<StripTokens(first[1])>>
            ELSE <<StripTokens(first[1]), StripTokens(first[2])>>
       ELSE IF second[2] = <<>> THEN <<StripTokens(first[1]), StripTokens(second[1])>>
            ELSE <<StripTokens(first[1]), StripTokens(second[1]), StripTokens(second[2])>>

\* content.split('\n')
RECURSIVE SplitLines(_)
SplitLines(content) ==
  IF ~HasToken(content, "\n") THEN <<content>>
  ELSE LET i == CHOOSE j \in DOMAIN content :
                  content[j].t = "\n" /\ \A l \in 1..(j - 1) : content[l].t # "\n" IN
       <<SubSeq(content, 1, i - 1)>> \o SplitLines(SubSeq(content, i + 1, Len(content)))

\* the target dictionary of parse_linktoview and parse_direct_navigation
NavTarget(view) ==
  [target_view |-> view,
   must_be_in_views |-> <<>>, must_not_be_in_views |-> <<>>, must_be_viewtype |-> <<>>,
   must_not_be_viewtype |-> <<>>, must_be_table |-> <<>>, must_not_be_table |-> <<>>,
   view_match_type |-> "", ifs_branch_index |-> 0]

TargetsOf(toks) == [i \in 1..Len(toks) |-> NavTarget(toks[i].v)]

\* parse_linktoview: every LINKTOVIEW("v") of the text
parse_linktoview(e) == TargetsOf(SelectSeq(e, LAMBDA tok : tok.t = "LINKTOVIEW"))

\* parse_direct_navigation: every #control=v of the text
parse_direct_navigation(e) == TargetsOf(SelectSeq(e, LAMBDA tok : tok.t = "#control="))

\* the pattern CONTEXT("View|ViewType|Table") (=|<>|!=) "value", ignoring case
IsContextComparison(tok) ==
  /\ tok.t = "CONTEXT"
  /\ Lower(tok.k) \in {"view", "viewtype", "table"}
  /\ tok.op \in {"=", "<>", "!="}
  /\ tok.v # ""

\* match.group(1).capitalize(), Viewtype corrected to ViewType
ContextType(tok) ==
  IF Lower(tok.k) = "view" THEN "View"
  ELSE IF Lower(tok.k) = "viewtype" THEN "ViewType"
  ELSE "Table"

\* parse_context_condition: the first comparison of the condition, if any
parse_context_condition(condition) == SelectSeq(condition, IsContextComparison)

\* target['must_be_*'] = value or target['must_not_be_*'] = value
SetConstraint(target, context_type, positive, value) ==
  IF context_type = "View"
  THEN IF positive THEN [target EXCEPT !.must_be_in_views = value]
       ELSE [target EXCEPT !.must_not_be_in_views = value]
  ELSE IF context_type = "ViewType"
  THEN IF positive THEN [target EXCEPT !.must_be_viewtype = value]
       ELSE [target EXCEPT !.must_not_be_viewtype = value]
  ELSE IF positive THEN [target EXCEPT !.must_be_table = value]
       ELSE [target EXCEPT !.must_not_be_table = value]

ApplyComparisonStated(targets, found, guarded) ==
  IF found = <<>> THEN targets
  ELSE [i \in 1..Len(targets) |->
          SetConstraint(targets[i], ContextType(found[1]),
                        found[1].op = "=", <<found[1].v>>)]

\* the constraint of a comparison on the targets of the branch it guards
ApplyComparison(targets, found, guarded) ==
  IF found = <<>> THEN targets
  ELSE [i \in 1..Len(targets) |->
          SetConstraint(targets[i], ContextType(found[1]),
                        (found[1].op = "=") = guarded, <<found[1].v>>)]

\* parse_if_expression, the OR( case: the values of the = comparisons between
\* the first OR( and the last ) of the condition
OrComparisons(condition) ==
  IF ~(HasToken(condition, "OR(") /\ HasToken(condition, ")")) THEN <<>>
  ELSE LET first == CHOOSE i \in DOMAIN condition :
                      condition[i].t = "OR(" /\ \A j \in 1..(i - 1) : condition[j].t # "OR("
           last == CHOOSE i \in DOMAIN condition :
                     condition[i].t = ")" /\ \A j \in (i + 1)..Len(condition) : condition[j].t # ")" IN
       IF last < first THEN <<>>
       ELSE SelectSeq(SubSeq(condition, first + 1, last - 1),
                      LAMBDA tok : IsContextComparison(tok) /\ tok.op = "=")

SetConstraintOnAll(targets, context_type, positive, value) ==
  [i \in 1..Len(targets) |-> SetConstraint(targets[i], context_type, positive, value)]

MarkDataDependent(targets, match_type) ==
  [i \in 1..Len(targets) |-> [targets[i] EXCEPT !.view_match_type = match_type]]

RECURSIVE parse_navigation_expression(_)
RECURSIVE parse_if_expression(_)
RECURSIVE parse_ifs_expression(_)
RECURSIVE ParseIfsLines(_, _)

\* parse_if_expression
parse_if_expression(expression) ==
  IF ~(Len(expression) >= 2 /\ expression[1].t = "IF(" /\ expression[Len(expression)].t = ")")
  THEN <<>>
  ELSE
    LET parts == SplitIfContent(SubSeq(expression, 2, Len(expression) - 1)) IN
    IF Len(parts) # 3 THEN <<>>
    ELSE
      LET condition == parts[1]
          true_expr == parts[2]
          false_expr == parts[3]
          matches == OrComparisons(condition)
          found == parse_context_condition(condition)
          has_nav_true == HasToken(true_expr, "LINKTOVIEW")
          has_nav_false == HasToken(false_expr, "LINKTOVIEW") IN
      IF matches # <<>>
      THEN LET values == [i \in 1..Len(matches) |-> matches[i].v] IN
           SetConstraintOnAll(parse_navigation_expression(true_expr),
                              ContextType(matches[1]), TRUE, values)
             \o SetConstraintOnAll(parse_navigation_expression(false_expr),
                                   ContextType(matches[1]), FALSE, values)
      ELSE IF found = <<>> /\ (has_nav_true \/ has_nav_false)
      THEN (IF has_nav_true
            THEN MarkDataDependent(parse_navigation_expression(true_expr), "data_dependent_true")
            ELSE <<>>)
             \o (IF has_nav_false
                 THEN MarkDataDependent(parse_navigation_expression(false_expr),
                                        "data_dependent_false")
                 ELSE <<>>)
      ELSE ApplyComparison(parse_navigation_expression(true_expr), found, TRUE)
             \o ApplyComparison(parse_navigation_expression(false_expr), found, FALSE)

\* parse_ifs_expression: the loop over the lines of the content
ParseIfsLines(lines, branch_index) ==
  IF lines = <<>> THEN <<>>
  ELSE
    LET line == RStripCommas(StripTokens(Head(lines)))
        parts == split_condition_action(line) IN
    IF StripTokens(Head(lines)) = <<>> \/ Len(parts) # 2
    THEN ParseIfsLines(Tail(lines), branch_index)
    ELSE
      LET found == parse_context_condition(StripTokens(parts[1]))
          nav_targets ==
            ApplyComparison(parse_navigation_expression(StripTokens(parts[2])), found, TRUE) IN
      [i \in 1..Len(nav_targets) |->
         [nav_targets[i] EXCEPT !.ifs_branch_index = branch_index + 1]]
        \o ParseIfsLines(Tail(lines), branch_index + 1)

\* parse_ifs_expression
parse_ifs_expression(expression) ==
  IF ~(Len(expression) >= 2 /\ expression[1].t = "IFS(" /\ expression[Len(expression)].t = ")")
  THEN <<>>
  ELSE ParseIfsLines(SplitLines(SubSeq(expression, 2, Len(expression) - 1)), 0)

\* parse_navigation_expression: the first matching shape decides
parse_navigation_expression(expression) ==
  LET e == StripTokens(expression) IN
  IF e = <<>> THEN <<>>
  ELSE IF HasToken(e, "#control=") THEN parse_direct_navigation(e)
  ELSE IF IsSimpleColumnReference(e) THEN <<>>
  ELSE IF e[1].t = "IFS(" THEN parse_ifs_expression(e)
  ELSE IF e[1].t = "IF(" THEN parse_if_expression(e)
  ELSE IF HasToken(e, "LINKTOVIEW") THEN parse_linktoview(e)
  ELSE <<>>

IsTrueText(tok) == tok.t = "text" /\ tok.v \in {"TRUE", "true"}

\* process_action: the pattern of an IF holding a context comparison and
\* true as one of its branches
IfWithTrue(e) ==
  \E i, j, k \in DOMAIN e :
    /\ i < j /\ j < k
    /\ e[i].t = "IF(" /\ e[j].t = "CONTEXT" /\ e[k].t = ","
    /\ \/ \E l \in (k + 1)..(Len(e) - 2) :
            e[l].t = "," /\ IsTrueText(e[l + 1]) /\ e[l + 2].t = ")"
       \/ /\ k + 2 <= Len(e)
          /\ IsTrueText(e[k + 1]) /\ e[k + 2].t = ","
          /\ \E m \in (k + 3)..Len(e) : e[m].t \in {")", "LINKTOVIEW", "CONTEXT"}

\* the values of the comparisons of one kind and direction in only_if_condition
ContextValues(e, context_type, positive) ==
  LET sel == SelectSeq(e, LAMBDA tok : /\ IsContextComparison(tok)
                                       /\ ContextType(tok) = context_type
                                       /\ (tok.op = "=") = positive) IN
  [i \in 1..Len(sel) |-> sel[i].v]

AllContextConditions(e) ==
  [must_be_in_views |-> ContextValues(e, "View", TRUE),
   must_not_be_in_views |-> ContextValues(e, "View", FALSE),
   must_be_viewtype |-> ContextValues(e, "ViewType", TRUE),
   must_not_be_viewtype |-> ContextValues(e, "ViewType", FALSE),
   must_be_table |-> ContextValues(e, "Table", TRUE),
   must_not_be_table |-> ContextValues(e, "Table", FALSE)]

\* process_action: action_conditions of a navigation action
action_conditions(only_if_condition) ==
  IF HasToken(only_if_condition, "CONTEXT") /\ ~IfWithTrue(only_if_condition)
  THEN AllContextConditions(only_if_condition)
  ELSE NoConditions

\* process_action: merge_conditions
merge_conditions(action_cond, expr_cond) ==
  IF action_cond # <<>> /\ expr_cond # <<>> THEN action_cond \o expr_cond
  ELSE IF action_cond # <<>> THEN action_cond
  ELSE expr_cond

\* classify_parse_failure
classify_parse_failure(expression) ==
  IF expression = <<>> THEN "Empty expression"
  ELSE IF \E i \in DOMAIN expression : expression[i] = Text("https://example.com")
  THEN "External URL"
  ELSE IF \E i \in DOMAIN expression : expression[i] = Text("LINKTOPARENTVIEW()")
  THEN "LINKTOPARENTVIEW - requires navigation history"
  ELSE IF IsSimpleColumnReference(StripTokens(expression)) THEN "Simple column reference"
  ELSE IF \E i \in DOMAIN expression : expression[i] = Text("mailto:a@example.com")
  THEN "External protocol (mailto/sms/tel/geo)"
  ELSE "Unknown pattern"

\* a row of appsheet_actions.csv
ActionRow(name, type, prominence, navigate_target, only_if_condition, referenced) ==
  [action_name |-> name, action_type_technical_name |-> type,
   action_prominence |-> prominence, attach_to_column |-> "",
   navigate_target |-> navigate_target, only_if_condition |-> only_if_condition,
   referenced_actions |-> referenced, source_table |-> "Orders"]

\* a row of action_targets.csv
ParsedTargetRow(row, target_view, referenced, conditions, branch_index, match_type) ==
  [source_action |-> row.action_name, source_table |-> row.source_table,
   action_type |-> row.action_type_technical_name,
   action_prominence |-> row.action_prominence,
   attach_to_column |->
     IF row.action_prominence = "Display_Inline" THEN row.attach_to_column ELSE "",
   target_view |-> target_view, referenced_actions |-> referenced,
   must_be_in_views |-> conditions.must_be_in_views,
   must_not_be_in_views |-> conditions.must_not_be_in_views,
   must_be_viewtype |-> conditions.must_be_viewtype,
   must_not_be_viewtype |-> conditions.must_not_be_viewtype,
   must_be_table |-> conditions.must_be_table,
   must_not_be_table |-> conditions.must_not_be_table,
   ifs_branch_index |-> branch_index, view_match_type |-> match_type,
   original_expression |-> row.navigate_target]

MergedConditions(action_cond, target_info) ==
  [must_be_in_views |->
     merge_conditions(action_cond.must_be_in_views, target_info.must_be_in_views),
   must_not_be_in_views |->
     merge_conditions(action_cond.must_not_be_in_views, target_info.must_not_be_in_views),
   must_be_viewtype |->
     merge_conditions(action_cond.must_be_viewtype, target_info.must_be_viewtype),
   must_not_be_viewtype |->
     merge_conditions(action_cond.must_not_be_viewtype, target_info.must_not_be_viewtype),
   must_be_table |-> merge_conditions(action_cond.must_be_table, target_info.must_be_table),
   must_not_be_table |->
     merge_conditions(action_cond.must_not_be_table, target_info.must_not_be_table)]

\* what a call of process_action returns and what it appends to unparseable
Processed(targets, failures) == [targets |-> targets, unparseable |-> failures]

\* process_action
process_action(row) ==
  IF row.action_type_technical_name \notin {"go_to_view", "Navigate", "execute_group"}
  THEN Processed(<<>>, <<>>)
  ELSE IF row.action_type_technical_name = "execute_group"
  THEN Processed(<<ParsedTargetRow([row EXCEPT !.navigate_target = <<>>], "",
                                   row.referenced_actions,
                                   IF HasToken(row.only_if_condition, "CONTEXT")
                                   THEN AllContextConditions(row.only_if_condition)
                                   ELSE NoConditions, 0, "")>>, <<>>)
  ELSE
    LET nav_expr == StripTokens(row.navigate_target) IN
    IF nav_expr = <<>> \/ IsSimpleColumnReference(nav_expr) THEN Processed(<<>>, <<>>)
    ELSE
      LET conditions == action_conditions(StripTokens(row.only_if_condition))
          parsed == parse_navigation_expression(nav_expr) IN
      IF parsed = <<>>
      THEN Processed(<<>>, <<[row |-> row,
                              parse_failure_reason |-> classify_parse_failure(nav_expr),
                              expression_attempted |-> nav_expr]>>)
      ELSE Processed([i \in 1..Len(parsed) |->
                        ParsedTargetRow([row EXCEPT !.navigate_target = nav_expr],
                                        parsed[i].target_view, <<>>,
                                        MergedConditions(conditions, parsed[i]),
                                        parsed[i].ifs_branch_index,
                                        parsed[i].view_match_type)], <<>>)

(***************************************************************************)
(* The navigation expression parser: formulas, rows and the state machine. *)
(***************************************************************************)
\* IF(condition, true_expr, false_expr)
If(condition, true_expr, false_expr) ==
  <<IfOpen>> \o condition \o <<Comma>> \o true_expr \o <<Comma>> \o false_expr \o <<Close>>

\* IFS(c1, a1, c2, a2) written on one line, with one pair per line, or with
\* every condition and every action on a line of its own
Ifs(c1, a1, c2, a2, layout) ==
  IF layout = "one line"
  THEN <<IfsOpen>> \o c1 \o <<Comma>> \o a1 \o <<Comma>> \o c2 \o <<Comma>> \o a2 \o <<Close>>
  ELSE IF layout = "pair per line"
  THEN <<IfsOpen, Newline>> \o c1 \o <<Comma>> \o a1 \o <<Comma, Newline>>
         \o c2 \o <<Comma>> \o a2 \o <<Newline, Close>>
  ELSE <<IfsOpen, Newline>> \o c1 \o <<Comma, Newline>> \o a1 \o <<Comma, Newline>>
         \o c2 \o <<Comma, Newline>> \o a2 \o <<Newline, Close>>

Layouts == {"one line", "pair per line", "part per line"}

\* the value a comparison of a context type names
ContextValue(k) == IF Lower(k) = "viewtype" THEN "detail" ELSE "Orders"

ContextSamples ==
  {Context(k, op, ContextValue(k)) :
     k \in {"View", "ViewType", "VIEWTYPE", "Table"}, op \in {"=", "<>", "!="}}

\* conditions: one comparison, a comparison the parser does not know, a
\* condition on the data, an OR of two comparisons
ConditionSamples ==
  {<<c>> : c \in ContextSamples}
    \cup {<<Context("Host", "=", "Browser")>>, <<Text("[Status] = Open")>>,
          <<OrOpen, Context("View", "=", "Orders"), Comma, Context("View", "=", "Tasks"),
            Close>>}

\* branches naming a view: a LINKTOVIEW call, a "#control=" string
NavBranches(view) == {<<LinkToView(view)>>, <<Fragment(view)>>}

NoNavBranch == <<Text("FALSE")>>

IfSamples ==
  {If(c, t, f) :
     c \in ConditionSamples,
     t \in NavBranches("Detail") \cup {NoNavBranch}
             \cup {If(<<Context("ViewType", "=", "table")>>, <<LinkToView("Detail")>>,
                      <<LinkToView("Deep")>>)},
     f \in NavBranches("Tasks") \cup {NoNavBranch}}
    \cup {If(<<Context("ViewType", "=", "deck")>>, <<LinkToView("A")>>, <<LinkToView("B")>>)}

IfsSamples ==
  {Ifs(<<c1>>, a1, <<c2>>, a2, layout) :
     c1 \in {Context("View", "=", "Orders"), Context("ViewType", "<>", "detail")},
     c2 \in {Context("View", "=", "Tasks"), Context("Table", "=", "Orders")},
     a1 \in NavBranches("Detail"), a2 \in NavBranches("Tasks"), layout \in Layouts}

PlainSamples ==
  {<<>>, <<Newline>>,
   <<ColumnRef(<<"L", "i", "n", "k">>)>>,
   <<ColumnRef(<<"U", "n", "i", "t", "-", "P", "r", "i", "c", "e">>)>>,
   <<Text("https://example.com")>>, <<Text("LINKTOPARENTVIEW()")>>,
   <<Text("mailto:a@example.com")>>, <<Text("FALSE")>>,
   <<LinkToView("Detail")>>, <<Fragment("Detail")>>}

FormulaSamples == PlainSamples \cup IfSamples \cup IfsSamples

OnlyIfSamples ==
  {<<>>, <<Context("View", "=", "Orders")>>, <<Context("ViewType", "<>", "table")>>,
   If(<<Context("View", "=", "Orders")>>, <<Text("[Status] = Open")>>, <<Text("TRUE")>>)}

RowSamples ==
  {ActionRow("Go", type, "Primary", formula, only_if, <<>>) :
     type \in {"go_to_view", "Navigate"}, formula \in FormulaSamples, only_if \in OnlyIfSamples}
    \cup {ActionRow("Grp", "execute_group", "Primary", <<>>, only_if, <<"Go">>) :
            only_if \in OnlyIfSamples}
    \cup {ActionRow("Url", "open_url", "Primary", formula, <<>>, <<>>) :
            formula \in {<<Text("https://example.com")>>, <<LinkToView("Detail")>>}}

\* the contents appsheet_actions.csv can have: one row, or a group and an action
ActionFiles ==
  {<<r>> : r \in RowSamples}
    \cup {<<g, r>> : g \in {x \in RowSamples : x.action_type_technical_name = "execute_group"},
                     r \in {x \in RowSamples : x.navigate_target \in PlainSamples}}

KeptTargets(previous) == previous

\* NavigationExpressionParser.__init__: parsed_targets of a new parser
FreshTargets(previous) == <<>>

\* run_action_target_parser on a directory holding appsheet_actions.csv
InitParse ==
  /\ actions_csv \in ActionFiles
  /\ parsed_targets = <<>>
  /\ unparseable = <<>>
  /\ targets_csv = <<>>
  /\ p_pc = "parse"
  /\ p_next = 1
  /\ p_run = 1
  /\ first_run = <<>>
  /\ present = {"appsheet_actions.csv", "appsheet_views.csv"}
  /\ written = {}
  /\ DetectorIdle
  /\ GeneratorIdle
  /\ CombineIdle
  /\ ResultsIdle
  /\ DriverIdle

\* parse_actions_csv: process_action for the next row
parse_row ==
  /\ p_pc = "parse"
  /\ p_next <= Len(actions_csv)
  /\ LET r == process_action(actions_csv[p_next]) IN
       /\ parsed_targets' = parsed_targets \o r.targets
       /\ unparseable' = unparseable \o r.unparseable
  /\ p_next' = p_next + 1
  /\ UNCHANGED <<actions_csv, targets_csv, p_pc, p_run, first_run>>
  /\ UNCHANGED <<dvars, gvars, fvars, avars, mvars, rvars>>

\* parse_actions_csv: every row is processed, action_targets.csv is written
\* when there is a target, the unparseable rows are written when there are any
write_targets_csv ==
  /\ p_pc = "parse"
  /\ p_next > Len(actions_csv)
  /\ targets_csv' = IF parsed_targets # <<>> THEN parsed_targets ELSE targets_csv
  /\ LET files == (IF parsed_targets # <<>> THEN {"action_targets.csv"} ELSE {})
                    \cup (IF unparseable # <<>> THEN {"action_targets_unparseable.csv"}
                          ELSE {}) IN
       /\ present' = present \cup files
       /\ written' = written \cup files
  /\ p_pc' = "done"
  /\ UNCHANGED <<actions_csv, parsed_targets, unparseable, p_next, p_run, first_run>>
  /\ UNCHANGED <<dvars, gvars, avars, mvars, rvars>>

\* the parser is run again on the same directory: a new parser is constructed
run_parser_again ==
  /\ p_pc = "done"
  /\ p_run = 1
  /\ first_run' = targets_csv
  /\ parsed_targets' = FreshTargets(parsed_targets)
  /\ unparseable' = <<>>
  /\ p_next' = 1
  /\ p_run' = 2
  /\ p_pc' = "parse"
  /\ UNCHANGED <<actions_csv, targets_csv>>
  /\ UNCHANGED <<dvars, gvars, fvars, avars, mvars, rvars>>

NextParse == parse_row \/ write_targets_csv \/ run_parser_again

SpecParse == InitParse /\ [][NextParse]_vars

(***************************************************************************)
(* Claims about the navigation expression parser.                          *)
(***************************************************************************)
\* the views the calls and "#control=" strings of an expression name
ViewsNamed(e) == {e[i].v : i \in {j \in DOMAIN e : e[j].t \in {"LINKTOVIEW", "#control="}}}

\* the field of a row that holds the constraint of a comparison, taken in
\* the stated direction or inverted
ConstraintField(row, c, stated) ==
  LET positive == (c.op = "=") = stated IN
  IF Lower(c.k) = "view"
  THEN IF positive THEN row.must_be_in_views ELSE row.must_not_be_in_views
  ELSE IF Lower(c.k) = "viewtype"
  THEN IF positive THEN row.must_be_viewtype ELSE row.must_not_be_viewtype
  ELSE IF positive THEN row.must_be_table ELSE row.must_not_be_table

\* the rows parsed from the formulas IF(c, t, f) of actions without a
\* condition of their own carry c, stated for the views of t, inverted for
\* the views of f
BranchesCarryTheComparison(formulas) ==
  \A i \in DOMAIN parsed_targets :
    LET row == parsed_targets[i] IN
    \A c \in ContextSamples, t \in NavBranches("Detail"), f \in NavBranches("Tasks") :
      (/\ If(<<c>>, t, f) \in formulas
       /\ row.original_expression = If(<<c>>, t, f)
       /\ actions_csv[1].only_if_condition = <<>>) =>
        /\ row.target_view = "Detail" => ConstraintField(row, c, TRUE) = <<c.v>>
        /\ row.target_view = "Tasks" => ConstraintField(row, c, FALSE) = <<c.v>>

\* the formula of the example yields exactly A, which must be in a deck
\* view, and B, which must not
ExampleYieldsTwoTargets ==
  LET example == If(<<Context("ViewType", "=", "deck")>>, <<LinkToView("A")>>,
                    <<LinkToView("B")>>)
      index == {i \in DOMAIN parsed_targets : parsed_targets[i].original_expression = example} IN
  (p_pc = "done" /\ actions_csv[1].navigate_target = example
     /\ actions_csv[1].only_if_condition = <<>>) =>
    /\ Cardinality(index) = 2
    /\ \E i, j \in index :
         /\ parsed_targets[i].target_view = "A"
         /\ parsed_targets[i].must_be_viewtype = <<"deck">>
         /\ parsed_targets[i].must_not_be_viewtype = <<>>
         /\ parsed_targets[j].target_view = "B"
         /\ parsed_targets[j].must_not_be_viewtype = <<"deck">>
         /\ parsed_targets[j].must_be_viewtype = <<>>

ConstraintFields ==
  {"must_be_in_views", "must_not_be_in_views", "must_be_viewtype", "must_not_be_viewtype",
   "must_be_table", "must_not_be_table"}

\* the row carries the constraint of comparison c and no other constraint
CarriesExactly(row, c) ==
  /\ ConstraintField(row, c, TRUE) = <<c.v>>
  /\ Cardinality({f \in ConstraintFields : row[f] # <<>>}) = 1

\* the IFS formulas whose actions are LINKTOVIEW calls
LinkIfs(c1, c2, layout) ==
  Ifs(<<c1>>, <<LinkToView("Detail")>>, <<c2>>, <<LinkToView("Tasks")>>, layout)

\* C13: whatever the layout of an IFS formula, the targets of the action of
\* pair k carry exactly the constraint of the condition of pair k and the
\* branch index k
C13_IfsPairsKeepTheirOwnConstraint ==
  \A i \in DOMAIN parsed_targets :
    LET row == parsed_targets[i] IN
    \A c1, c2 \in ContextSamples \cup {Context("View", "=", "Tasks")}, layout \in Layouts :
      (/\ row.original_expression = LinkIfs(c1, c2, layout)
       /\ actions_csv[1].only_if_condition = <<>>) =>
        /\ row.target_view = "Detail" => CarriesExactly(row, c1) /\ row.ifs_branch_index = 1
        /\ row.target_view = "Tasks" => CarriesExactly(row, c2) /\ row.ifs_branch_index = 2


\* a navigate_target that is one column reference, whatever the column's name
IsBareColumnReference(e) == Len(e) = 1 /\ e[1].t = "[]"

\* a navigate_target holding no formula
IsEmptyFormula(e) == \A i \in DOMAIN e : e[i] = Newline

FailureReasons ==
  {"Empty expression", "External URL", "LINKTOPARENTVIEW - requires navigation history",
   "Simple column reference", "External protocol (mailto/sms/tel/geo)", "Unknown pattern"}

\* C15: once the one row of the file is processed, an empty formula or a
\* bare column reference has left no record, every other formula of a
\* go_to_view or Navigate action has left at least one target or exactly one
\* unparseable record with the row, a reason and the expression, never both,
\* and an action of a type that is not parsed has left nothing
C15_EveryFormulaIsParsedOrRecorded ==
  (Len(actions_csv) = 1 /\ p_next = 2) =>
    LET row == actions_csv[1] IN
    IF row.action_type_technical_name \in {"go_to_view", "Navigate"}
    THEN IF IsEmptyFormula(row.navigate_target) \/ IsBareColumnReference(row.navigate_target)
         THEN parsed_targets = <<>> /\ unparseable = <<>>
         ELSE \/ Len(parsed_targets) >= 1 /\ unparseable = <<>>
              \/ /\ parsed_targets = <<>>
                 /\ Len(unparseable) = 1
                 /\ unparseable[1].row = row
                 /\ unparseable[1].parse_failure_reason \in FailureReasons
                 /\ unparseable[1].expression_attempted # <<>>
    ELSE row.action_type_technical_name # "execute_group" =>
           parsed_targets = <<>> /\ unparseable = <<>>


\* C20: the second run of the parser on the same appsheet_actions.csv leaves
\* in action_targets.csv the rows the first run wrote, each once
C20_SecondRunWritesTheSameRows ==
  (p_run = 2 /\ p_pc = "done") =>
    /\ targets_csv = first_run
    /\ parsed_targets = first_run

\* the second run of the parser has written the two rows of an IF formula
C20_Witness ==
  /\ p_run = 2
  /\ p_pc = "done"
  /\ Len(first_run) = 2
  /\ targets_csv = first_run
  /\ targets_csv[1].target_view # targets_csv[2].target_view


(***************************************************************************)
(* The parser and the edge generator in sequence: action_targets.csv as    *)
(* the parser wrote it is the generator's input.                           *)
(***************************************************************************)
\* comparisons of the three context types with either of two values
PipeComparisons ==
  {Context(k, op, v) : k \in {"View", "Table"}, op \in {"=", "<>"}, v \in {"Orders", "Tasks"}}
    \cup {Context("ViewType", op, v) : op \in {"=", "<>"}, v \in {"detail", "table"}}

\* appsheet_actions.csv: the action Go, its only_if_condition empty or one
\* comparison, its formula an IF on one comparison, a formula without a
\* target, or a view opened by an action that is never displayed
PipeActionFiles ==
  {<<ActionRow("Go", "go_to_view", "Primary",
               If(<<c>>, <<LinkToView("Detail")>>, <<LinkToView("Deep")>>), only_if, <<>>)>> :
     c \in PipeComparisons, only_if \in {<<>>} \cup {<<a>> : a \in PipeComparisons}}
    \cup {<<ActionRow("Go", "go_to_view", "Primary", <<Text("FALSE")>>, <<>>, <<>>)>>,
          <<ActionRow("Go", "go_to_view", "Do_Not_Display", <<LinkToView("Detail")>>, <<>>,
                      <<>>)>>}

\* appsheet_views.csv and appsheet_slices.csv: a detail view on a slice of
\* Orders and a table view of Tasks, both offering the action Go
PipeViews ==
  <<GenViewRow("Orders", "detail", "OpenOrders", <<"Go">>, <<>>, <<>>, <<>>),
    GenViewRow("Tasks", "table", "Tasks", <<"Go">>, <<>>, <<>>, <<>>)>>

InitPipeline ==
  /\ actions_csv \in PipeActionFiles
  /\ parsed_targets = <<>>
  /\ unparseable = <<>>
  /\ targets_csv = <<>>
  /\ p_pc = "parse"
  /\ p_next = 1
  /\ p_run = 1
  /\ first_run = <<>>
  /\ present = {"appsheet_actions.csv", "appsheet_views.csv", "appsheet_slices.csv"}
  /\ written = {}
  /\ GeneratorInit
  /\ g_pc = "load"
  /\ DetectorIdle
  /\ CombineIdle
  /\ ResultsIdle
  /\ DriverIdle

\* run_navigation_edge_generator after the parser: load_action_targets reads
\* the file the parser wrote, or run fails when the parser wrote none
load_parsed_targets ==
  /\ p_pc = "done"
  /\ g_pc = "load"
  /\ IF GeneratorRequiredFiles \subseteq present
     THEN /\ action_targets' = targets_csv
          /\ views' = PipeViews
          /\ slices' = {<<"OpenOrders", "Orders">>}
          /\ g_pc' = "generate"
     ELSE /\ g_pc' = "failed"
          /\ UNCHANGED <<action_targets, views, slices>>
  /\ UNCHANGED <<edges, g_next, max_chain>>
  /\ UNCHANGED <<dvars, xvars>>

NextPipeline ==
  \/ parse_row
  \/ write_targets_csv
  \/ load_parsed_targets
  \/ generate_edges_step
  \/ write_edges_csv

SpecPipeline == InitPipeline /\ [][NextPipeline]_vars

\* the attribute of a view a comparison is about
ContextAttribute(c, view) ==
  IF Lower(c.k) = "view" THEN view.view_name
  ELSE IF Lower(c.k) = "viewtype" THEN view.view_type
  ELSE SliceResolvedTable(view)

\* the view satisfies the comparison, or its inverse for a false branch
ComparisonHolds(c, stated, view) ==
  (ContextAttribute(c, view) = c.v) = ((c.op = "=") = stated)

\* C14: when the only_if_condition of the action and the condition of its IF
\* formula are comparisons of the same context field, every edge of the
\* action starts from a view that satisfies the only_if_condition and the
\* condition of the branch the edge's target was taken from
C14_EdgesSatisfyActionAndBranchConstraint ==
  \A i \in DOMAIN edges :
    LET row == actions_csv[1]
        view == SourceView(edges[i]) IN
    (/\ row.only_if_condition # <<>>
     /\ Len(row.navigate_target) > 1
     /\ Lower(row.only_if_condition[1].k) = Lower(row.navigate_target[2].k)) =>
      /\ ComparisonHolds(row.only_if_condition[1], TRUE, view)
      /\ ComparisonHolds(row.navigate_target[2], edges[i].target_view = "Detail", view)


(***************************************************************************)
(* Claims about the detector's name registry.                              *)
(***************************************************************************)
\* C21: the normalized form of every view name of the input resolves,
\* through view_name_by_lower, to that view's own name, and once the
\* traversal has ended every edge whose source view is reached has its
\* target view reached
C21_NormalizedNameResolvesToTheSameView ==
  /\ \A i \in DOMAIN all_views :
       view_name_by_lower_get(all_views, Lower(all_views[i].view_name),
                              all_views[i].view_name) = all_views[i].view_name
  /\ d_pc = "bfs_done" =>
       \A row \in edge_rows :
         row.source_view \in reachable => row.target_view \in reachable


\* a combined must_be field: the intersection of two non-empty sides, the
\* one non-empty side unchanged, or empty
IsMustBeOf(out, parent_val, child_val) ==
  IF parent_val # <<>> /\ child_val # <<>>
  THEN ValueSet(out) = ValueSet(parent_val) \cap ValueSet(child_val)
  ELSE IF parent_val # <<>> THEN out = parent_val
  ELSE out = child_val

\* a combined must_not_be field: the union of both sides
IsMustNotBeOf(out, parent_val, child_val) ==
  ValueSet(out) = ValueSet(parent_val) \cup ValueSet(child_val)

\* the target rows of a group and of a navigation action that carry the
\* constraints of the two records
ParentRow(c) == TargetRow("GrpA", "execute_group", "Primary", "", "", <<"Go">>, c)

ChildRow(c) == TargetRow("Go", "go_to_view", "Display_Inline", "Status", "Detail", <<>>, c)

\* the fields of a target row that are not constraints
OtherFields(row) ==
  <<row.source_action, row.source_table, row.action_type, row.action_prominence,
    row.attach_to_column, row.target_view, row.referenced_actions>>

\* C22: combine_conditions(parent, child) holds in each must_be field the
\* intersection of both sides when both are non-empty and the one non-empty
\* side otherwise, in each must_not_be field the union of both sides, and in
\* every other field the child's value
C22_CombineIntersectsAndUnites ==
  a_pc \in {"triple", "done"} =>
    LET out == cond_out.ab
        row == combine_conditions(ParentRow(cond_A), ChildRow(cond_B)) IN
    /\ IsMustBeOf(out.must_be_in_views, cond_A.must_be_in_views, cond_B.must_be_in_views)
    /\ IsMustBeOf(out.must_be_viewtype, cond_A.must_be_viewtype, cond_B.must_be_viewtype)
    /\ IsMustBeOf(out.must_be_table, cond_A.must_be_table, cond_B.must_be_table)
    /\ IsMustNotBeOf(out.must_not_be_in_views, cond_A.must_not_be_in_views,
                     cond_B.must_not_be_in_views)
    /\ IsMustNotBeOf(out.must_not_be_viewtype, cond_A.must_not_be_viewtype,
                     cond_B.must_not_be_viewtype)
    /\ IsMustNotBeOf(out.must_not_be_table, cond_A.must_not_be_table,
                     cond_B.must_not_be_table)
    /\ OtherFields(row) = OtherFields(ChildRow(cond_B))
    /\ SameValueSets(row, out)

\* an empty intersection: the parent allows the view Orders only, the child
\* the view Tasks only, and both forbid a view; the combined record is kept
\* with an empty must_be_in_views and both forbidden views
C22_Witness ==
  /\ a_pc = "triple"
  /\ cond_A.must_be_in_views = <<"Orders">>
  /\ cond_B.must_be_in_views = <<"Tasks">>
  /\ cond_A.must_not_be_in_views = <<"Tasks">>
  /\ cond_B.must_not_be_in_views = <<"Orders">>
  /\ cond_out.ab.must_be_in_views = <<>>
  /\ ValueSet(cond_out.ab.must_not_be_in_views) = {"Orders", "Tasks"}


(***************************************************************************)
(* The edge generator on views with configured events: the views parser    *)
(* fills event_actions from the Events of view_configuration.              *)
(***************************************************************************)
EventSamples ==
  {[EventType |-> t, EventAction |-> a] :
     t \in {"Row Selected", "Form Saved"}, a \in {"**auto**", "**none**", "Go", "GrpA"}}

EventLists == {<<e>> : e \in EventSamples} \cup {<<e, f>> : e, f \in EventSamples}

HasAutoEvent(events) == \E i \in DOMAIN events : events[i].EventAction = "**auto**"

\* view_configuration: empty, text that json.loads rejects, or an object
\* with one or two events; the text holds **auto** when an event does, and
\* may hold it elsewhere
EventConfigurations ==
  {NoConfiguration, [kind |-> "text", has_auto |-> TRUE, Events |-> <<>>]}
    \cup {[kind |-> "json", has_auto |-> TRUE, Events |-> events] : events \in EventLists}
    \cup {[kind |-> "json", has_auto |-> FALSE, Events |-> events] :
            events \in {ev \in EventLists : ~HasAutoEvent(ev)}}

\* views_parser: event_actions, the EventAction of every event that is
\* neither **auto** nor **none**
ParsedEventActions(config) ==
  LET actions == [i \in DOMAIN config.Events |-> config.Events[i].EventAction] IN
  SelectSeq(actions, LAMBDA a : a \notin {"**auto**", "**none**", ""})

\* the view Main on the table Orders with a configuration and, in some
\* files, the group GrpA among its available actions; the detail view Deep
\* on Orders; the action Go and the groups GrpA (of Go or of GrpB) and GrpB
EventFiles(vtype) ==
  {[views |->
      <<[AutoViewRow("Main", vtype, "Orders", "No", config)
           EXCEPT !.event_actions = ParsedEventActions(config),
                  !.available_actions = available,
                  !.referenced_actions = available],
        AutoViewRow("Deep", "detail", "Orders", "No", NoConfiguration)>>,
    action_targets |->
      <<TargetRow("Go", "go_to_view", prominence, "", "Detail", <<>>, NoConditions),
        TargetRow("GrpA", "execute_group", prominence, "", "", refs, NoConditions),
        TargetRow("GrpB", "execute_group", "Primary", "", "", <<"Go">>, NoConditions)>>,
    slices |-> {<<"OpenOrders", "Orders">>}] :
     config \in EventConfigurations,
     available \in {<<>>, <<"GrpA">>},
     prominence \in {"Primary", "Do_Not_Display"},
     refs \in {<<"Go">>, <<"GrpB">>}}

LoadEvent == \E vtype \in {"table", "deck", "detail", "form"} : LoadFiles(EventFiles(vtype))

NextEvent == LoadEvent \/ generate_edges_step \/ write_edges_csv

SpecEvent == InitGenerate /\ [][NextEvent]_vars

\* the actions a view's configuration wires to a Row Selected event
ExplicitRowSelectedActions(view) ==
  LET config == view.view_configuration IN
  IF config.kind # "json" THEN {}
  ELSE {config.Events[i].EventAction :
          i \in {j \in DOMAIN config.Events :
                   /\ Lower(config.Events[j].EventType) = "row selected"
                   /\ config.Events[j].EventAction # "**auto**"}}

\* C23: no auto edge starts from a view with an explicit Row Selected event,
\* so no view is the source of an auto edge and of an edge of its own
\* explicit Row Selected action
C23_ExplicitRowSelectedSuppressesAuto ==
  \A i \in DOMAIN edges :
    edges[i].action_availability_type = "auto" =>
      /\ ExplicitRowSelectedActions(SourceView(edges[i])) = {}
      /\ \A j \in DOMAIN edges :
           edges[j].source_view = edges[i].source_view =>
             edges[j].top_action \notin ExplicitRowSelectedActions(SourceView(edges[i]))

\* the table view Main marks Form Saved as **auto** and wires Go to Row
\* Selected: the edge of Go is emitted, the auto edge to Deep is not
C23_Witness ==
  /\ g_pc = "done"
  /\ views[1].view_type = "table"
  /\ views[1].view_configuration.Events =
       <<[EventType |-> "Form Saved", EventAction |-> "**auto**"],
         [EventType |-> "Row Selected", EventAction |-> "Go"]>>
  /\ \E i \in DOMAIN edges :
       edges[i].source_view = "Main" /\ edges[i].source_action = "Go"
  /\ \A i \in DOMAIN edges : edges[i].action_availability_type # "auto"


\* the edges written while the event actions of a view were processed: they
\* carry an event type and are not the auto edge
IsEdgeOfEventAction(e) == e.event_type # "" /\ e.action_availability_type # "auto"

\* C24: every edge produced from an entry of event_actions, a navigation
\* action or a group whose children are expanded, is tagged event and carries
\* the event type resolved for its view, and every event action yields its
\* edge whatever its prominence
C24_EventEdgesAreTaggedEvent ==
  /\ \A i \in DOMAIN edges :
       IsEdgeOfEventAction(edges[i]) =>
         /\ edges[i].action_availability_type = "event"
         /\ edges[i].event_type = EventTypeOf(SourceView(edges[i]))
  /\ \A v \in ProcessedViews :
       \A a \in Range(v.event_actions) :
         \E i \in DOMAIN edges :
           /\ edges[i].source_view = v.view_name
           /\ edges[i].top_action = a
           /\ IsEdgeOfEventAction(edges[i])


\* C25: every via_group edge records in source_action a navigation action
\* and in parent_action the group of the view's available_actions or
\* event_actions from which the expansion started, also through nested groups
C25_ViaGroupRecordsTopLevelParent ==
  \A i \in DOMAIN edges :
    edges[i].action_availability_type = "via_group" =>
      /\ RowOf(edges[i].source_action).action_type # "execute_group"
      /\ edges[i].parent_action = edges[i].top_action
      /\ \/ edges[i].top_action \in Range(SourceView(edges[i]).available_actions)
         \/ edges[i].top_action \in Range(SourceView(edges[i]).event_actions)


(***************************************************************************)
(* The edge generator on two tables that each have an action named Go.     *)
(***************************************************************************)
\* a target row of an action of a table
TableTargetRow(table, name, type, prominence, target, refs) ==
  [TargetRow(name, type, prominence, "", target, refs, NoConditions)
     EXCEPT !.source_table = table]

\* the view Orders on the table Orders or on its slice and the view Tasks on
\* the table Tasks, both offering Go, the group GrpA, or both; Go of Orders
\* opens Detail, Go of Tasks opens Deep, GrpA of Orders runs Go
CollisionFiles(vtype) ==
  {[views |->
      <<GenViewRow("Orders", vtype, source, available, available, <<>>, <<>>),
        GenViewRow("Tasks", vtype, "Tasks", available, available, <<>>, <<>>)>>,
    action_targets |->
      <<TableTargetRow("Orders", "Go", "go_to_view", prominence, "Detail", <<>>),
        TableTargetRow("Tasks", "Go", "go_to_view", prominence, "Deep", <<>>),
        TableTargetRow("Orders", "GrpA", "execute_group", prominence, "", <<"Go">>)>>,
    slices |-> {<<"OpenOrders", "Orders">>}] :
     source \in {"Orders", "OpenOrders"},
     available \in {<<"Go">>, <<"GrpA">>, <<"Go", "GrpA">>},
     prominence \in Prominences}

LoadCollision ==
  \E vtype \in {"table", "deck", "detail", "form"} : LoadFiles(CollisionFiles(vtype))

NextCollision == LoadCollision \/ generate_edges_step \/ write_edges_csv

SpecCollision == InitGenerate /\ [][NextCollision]_vars

\* C26: every edge of an action name comes from a target record of the
\* action of that name that belongs to the resolved table of the edge's
\* source view, also when the action is run by a group
C26_CollidingNamesResolvedByTable ==
  \A i \in DOMAIN edges :
    edges[i].source_action # "" =>
      \E j \in DOMAIN action_targets :
        /\ action_targets[j].source_action = edges[i].source_action
        /\ action_targets[j].target_view = edges[i].target_view
        /\ action_targets[j].source_table = SliceResolvedTable(SourceView(edges[i]))


(***************************************************************************)
(* The stages in sequence: the parser, the edge generator on the file the  *)
(* parser wrote, the view orphan detector on the file the generator wrote. *)
(***************************************************************************)
InitStages ==
  /\ actions_csv \in PipeActionFiles
  /\ parsed_targets = <<>>
  /\ unparseable = <<>>
  /\ targets_csv = <<>>
  /\ p_pc = "parse"
  /\ p_next = 1
  /\ p_run = 1
  /\ first_run = <<>>
  /\ present = {"appsheet_actions.csv", "appsheet_views.csv", "appsheet_slices.csv"}
  /\ written = {}
  /\ GeneratorInit
  /\ g_pc = "load"
  /\ DetectorInit
  /\ d_pc = "run_start"
  /\ CombineIdle
  /\ ResultsIdle
  /\ DriverIdle

\* view files for the detector at the end of the stages: the root view Main
\* and two views that are user-created or system views
StageViewFiles ==
  {f \in SmallViewFiles : f[1].is_system_view = "No" /\ f[2].is_system_view = f[3].is_system_view
                            /\ f[2].category = "ref" /\ f[3].category = "ref"}

\* run_view_orphan_detector once the generator's run has returned True
detect_after_generate == g_pc = "done" /\ RunAnalysis(StageViewFiles)

detect_after_generate_missing == g_pc = "done" /\ run_analysis_missing

NextStages ==
  \/ parse_row
  \/ write_targets_csv
  \/ load_parsed_targets
  \/ generate_edges_step
  \/ write_edges_csv
  \/ detect_after_generate
  \/ detect_after_generate_missing

SpecStages == InitStages /\ [][NextStages]_vars

\* C27: once the parser has returned, action_targets.csv exists and the
\* generator does not fail for a missing file; once the generator's run has
\* returned True, navigation_edges.csv exists and the detector does not fail
\* for a missing file
C27_NextStageFindsItsInput ==
  /\ p_pc = "done" => "action_targets.csv" \in present /\ g_pc # "failed"
  /\ g_pc = "done" => "navigation_edges.csv" \in present /\ d_pc # "run_failed"


(***************************************************************************)
(* The result files across runs of the view orphan detector in the same    *)
(* directory, and the downstream detectors that read them.                 *)
(***************************************************************************)
\* how many times the view orphan detector is run again
MaxRuns == 1

InitRerun == DetectorInit /\ d_pc = "run_start" /\ GeneratorIdle /\ ExtrasIdle

\* main() of the view orphan detector: run_analysis, whose write_results_to_csv
\* leaves the file of an empty result list as it is
run_analysis_in_directory == RunAnalysis(StageViewFiles)

\* the view orphan detector is started again in the same directory: a new
\* ViewOrphanDetector is constructed, the files of the directory stay
construct_detector_again ==
  /\ d_pc = "run_done"
  /\ r_runs < MaxRuns
  /\ all_views' = <<>>
  /\ edge_rows' = {}
  /\ reachable' = {}
  /\ orphan_candidates' = <<>>
  /\ unused_system_views' = <<>>
  /\ d_pc' = "run_start"
  /\ r_runs' = r_runs + 1
  /\ r_pc' = "idle"
  /\ exclusions' = {}
  /\ UNCHANGED <<queue, expand_count, iterations, unused_csv, orphans_csv>>
  /\ UNCHANGED <<views_csv, phantoms, h_pc>>
  /\ UNCHANGED <<gvars, fvars, avars, mvars, pvars>>

\* load_unused_system_views of the column and the actions orphan detector:
\* the lower-cased view_name of every row of unused_system_views.csv, the
\* empty set when the file does not exist
load_unused_system_views ==
  /\ d_pc = "run_done"
  /\ r_pc = "idle"
  /\ exclusions' = IF "unused_system_views.csv" \in present
                   THEN {Lower(unused_csv[i].view_name) : i \in DOMAIN unused_csv}
                   ELSE {}
  /\ r_pc' = "loaded"
  /\ UNCHANGED <<unused_csv, orphans_csv, r_runs, views_csv, phantoms, h_pc>>
  /\ UNCHANGED <<dvars, gvars, fvars, avars, mvars, pvars>>

NextRerun ==
  \/ run_analysis_in_directory
  \/ construct_detector_again
  \/ load_unused_system_views

SpecRerun == InitRerun /\ [][NextRerun]_vars

\* C28: after any sequence of runs in the same directory, a downstream
\* detector loads exactly the unused system views of the most recent run,
\* unused_system_views.csv exists with the rows of the most recent run or,
\* when that run found none, does not exist, and the same holds of
\* potential_view_orphans.csv and the orphan candidates
C28_ResultFilesReflectTheLastRun ==
  /\ r_pc = "loaded" =>
       exclusions = {Lower(unused_system_views[i].view_name) : i \in DOMAIN unused_system_views}
  /\ d_pc = "run_done" =>
       /\ IF unused_system_views = <<>>
          THEN "unused_system_views.csv" \notin present
          ELSE "unused_system_views.csv" \in present /\ unused_csv = unused_system_views
       /\ IF orphan_candidates = <<>>
          THEN "potential_view_orphans.csv" \notin present
          ELSE "potential_view_orphans.csv" \in present /\ orphans_csv = orphan_candidates


(***************************************************************************)
(* Reachability through views whose show_if is always false.               *)
(***************************************************************************)
\* the least set that contains S and the targets of the edges that leave a
\* view of the set whose show_if is not always false
RECURSIVE ClosedUnderLiveEdges(_)
ClosedUnderLiveEdges(S) ==
  LET live == {n \in S : \E i \in DOMAIN all_views :
                 /\ all_views[i].view_name = n
                 /\ ~is_always_false_condition(all_views[i].show_if)}
      T == S \cup {row.target_view : row \in {r \in edge_rows : r.source_view \in live}} IN
  IF T = S THEN S ELSE ClosedUnderLiveEdges(T)

\* C29: after run_analysis a view that is in neither result list is reached
\* from a root view by a path whose views all have a show_if that is not
\* always false: the edges that leave an always-false view make nothing
\* reachable
C29_AlwaysFalseViewsDoNotCarryReachability ==
  d_pc = "run_done" =>
    \A i \in DOMAIN all_views :
      (CountOf(orphan_candidates, all_views[i].view_name) = 0
         /\ CountOf(unused_system_views, all_views[i].view_name) = 0)
        => all_views[i].view_name \in ClosedUnderLiveEdges(ClaimRoots)


(***************************************************************************)
(* The phantom view reference detector: the references of the actions.     *)
(* An expression is a formula of the parser's tokens; the view names of    *)
(* the inputs carry no quotes and no outer white space and are none of the *)
(* keywords extract_view_references skips. appsheet_columns.csv and        *)
(* appsheet_format_rules.csv do not exist and no view has a show_if, so    *)
(* the scan of the other components adds nothing.                          *)
(***************************************************************************)
\* the view names of the tokens of an expression that satisfy Test, in order
NamesOfTokens(expression, Test(_)) ==
  LET selected == SelectSeq(expression, Test) IN
  [i \in 1..Len(selected) |-> selected[i].v]

\* extract_view_references: the patterns are tried in their order, so the
\* names of the LINKTOVIEW calls come first, found by the quoted pattern and
\* once more by the unquoted pattern, then the names compared to
\* CONTEXT("View") with "="
extract_view_references(expression) ==
  LET links == NamesOfTokens(expression, LAMBDA tok : tok.t = "LINKTOVIEW")
      contexts == NamesOfTokens(expression,
                    LAMBDA tok : tok.t = "CONTEXT" /\ Lower(tok.k) = "view" /\ tok.op = "=") IN
  [i \in 1..Len(links) |-> <<"LINKTOVIEW", links[i]>>]
    \o [i \in 1..Len(links) |-> <<"LINKTOVIEW", links[i]>>]
    \o [i \in 1..Len(contexts) |-> <<"CONTEXT", contexts[i]>>]

\* get_known_views: the normalized, lower-cased view names
get_known_views(view_names) == {Lower(view_names[i]) : i \in DOMAIN view_names}

\* the names of the references of an expression that are not known views
MissingViews(expression, known_views_normalized) ==
  LET refs == extract_view_references(expression)
      names == [i \in 1..Len(refs) |-> refs[i][2]] IN
  SelectSeq(names, LAMBDA name : Lower(name) \notin known_views_normalized)

\* a phantom record; missing_view_names is the sequence that "|||" joins
PhantomRecord(name, table, field, missing, expression) ==
  [name |-> name, type |-> "Action", table |-> table, field |-> field,
   missing_view_names |-> missing, expression |-> expression]

\* the rows of action_targets.csv the parser writes for the navigate_target
\* formulas of the inputs: one row for every LINKTOVIEW call
RECURSIVE LinkTargetRows(_)
LinkTargetRows(rows) ==
  IF rows = <<>> THEN <<>>
  ELSE LET row == Head(rows)
           links == NamesOfTokens(row.navigate_target, LAMBDA tok : tok.t = "LINKTOVIEW") IN
       [i \in 1..Len(links) |->
          [source_action |-> row.action_name, source_table |-> row.source_table,
           target_view |-> links[i], original_expression |-> row.navigate_target]]
         \o LinkTargetRows(Tail(rows))

\* the keys of action_phantoms in the order of their insertion
RECURSIVE PhantomActionNames(_, _, _)
PhantomActionNames(rows, known_views_normalized, seen) ==
  IF rows = <<>> THEN <<>>
  ELSE LET row == Head(rows) IN
       IF Lower(row.target_view) \notin known_views_normalized /\ row.source_action \notin seen
       THEN <<row.source_action>>
              \o PhantomActionNames(Tail(rows), known_views_normalized,
                                    seen \cup {row.source_action})
       ELSE PhantomActionNames(Tail(rows), known_views_normalized, seen)

\* find_action_phantoms_from_targets: one record for every action name with a
\* target that is not a known view, the table and the expression taken from
\* the first row of that name
find_action_phantoms_from_targets(rows, known_views_normalized) ==
  LET names == PhantomActionNames(rows, known_views_normalized, {}) IN
  [n \in 1..Len(names) |->
     LET action_rows == SelectSeq(rows, LAMBDA r : r.source_action = names[n])
         missing == {action_rows[i].target_view : i \in
                       {j \in DOMAIN action_rows :
                          Lower(action_rows[j].target_view) \notin known_views_normalized}} IN
     PhantomRecord(names[n], action_rows[1].source_table, "navigate_target", Sorted(missing),
                   action_rows[1].original_expression)]

\* find_phantoms with action_targets.csv: the scan of only_if_condition
RECURSIVE ScanOnlyIf(_, _)
ScanOnlyIf(rows, known_views_normalized) ==
  IF rows = <<>> THEN <<>>
  ELSE LET row == Head(rows)
           missing == MissingViews(row.only_if_condition, known_views_normalized) IN
       (IF missing # <<>>
        THEN <<PhantomRecord(row.action_name, row.source_table, "only_if_condition", missing,
                             row.only_if_condition)>>
        ELSE <<>>) \o ScanOnlyIf(Tail(rows), known_views_normalized)

\* find_phantoms without action_targets.csv: the first expression with a
\* missing view reads action_name, a local the function never assigned on
\* this path, and UnboundLocalError leaves the function
FallbackRaises(rows, known_views_normalized) ==
  \E i \in DOMAIN rows : \E field \in {"navigate_target", "only_if_condition"} :
    MissingViews(rows[i][field], known_views_normalized) # <<>>

\* appsheet_actions.csv of the phantom detector: the actions Go of Orders and
\* Back of Tasks
PhantomNames == {"Detail", "Ghost"}

PhantomActionRows(name, table) ==
  {[ActionRow(name, "go_to_view", "Primary", navigate_target, only_if, <<>>)
      EXCEPT !.source_table = table] :
     navigate_target \in {<<>>} \cup {<<LinkToView(n)>> : n \in PhantomNames}
                          \cup {If(<<Context("View", "=", "Main")>>, <<LinkToView("Detail")>>,
                                   <<LinkToView("Ghost")>>)},
     only_if \in {<<>>} \cup {<<Context("View", op, n)>> : op \in {"=", "<>"}, n \in PhantomNames}}

PhantomActionFiles ==
  {<<go>> : go \in PhantomActionRows("Go", "Orders")}
    \cup {<<go, back>> : go \in PhantomActionRows("Go", "Orders"),
                         back \in PhantomActionRows("Back", "Tasks")}

\* appsheet_views.csv of the phantom detector
PhantomViewFiles == {<<"Main", "Detail">>, <<"Main", "detail">>}

InitPhantom ==
  /\ present \in SUBSET {"appsheet_views.csv", "appsheet_actions.csv", "action_targets.csv"}
  /\ written = {}
  /\ IF "appsheet_views.csv" \in present THEN views_csv \in PhantomViewFiles
     ELSE views_csv = <<>>
  /\ IF "appsheet_actions.csv" \in present THEN actions_csv \in PhantomActionFiles
     ELSE actions_csv = <<>>
  /\ targets_csv = IF "action_targets.csv" \in present THEN LinkTargetRows(actions_csv) ELSE <<>>
  /\ phantoms = <<>>
  /\ h_pc = "start"
  /\ parsed_targets = <<>>
  /\ unparseable = <<>>
  /\ p_pc = "idle"
  /\ p_next = 1
  /\ p_run = 0
  /\ first_run = <<>>
  /\ unused_csv = <<>>
  /\ orphans_csv = <<>>
  /\ exclusions = {}
  /\ r_pc = "idle"
  /\ r_runs = 0
  /\ DetectorIdle
  /\ GeneratorIdle
  /\ CombineIdle
  /\ DriverIdle

\* find_phantoms
find_phantoms ==
  /\ h_pc = "start"
  /\ LET known_views_normalized == get_known_views(views_csv) IN
     IF "appsheet_views.csv" \notin present
     THEN phantoms' = <<>> /\ h_pc' = "done"
     ELSE IF "action_targets.csv" \in present
     THEN /\ phantoms' = find_action_phantoms_from_targets(targets_csv, known_views_normalized)
                           \o ScanOnlyIf(actions_csv, known_views_normalized)
          /\ h_pc' = "done"
     ELSE IF FallbackRaises(actions_csv, known_views_normalized)
     THEN phantoms' = <<>> /\ h_pc' = "raised"
     ELSE phantoms' = <<>> /\ h_pc' = "done"
  /\ UNCHANGED <<unused_csv, orphans_csv, exclusions, r_pc, r_runs, views_csv>>
  /\ UNCHANGED <<dvars, gvars, fvars, avars, mvars, pvars>>

NextPhantom == find_phantoms

SpecPhantom == InitPhantom /\ [][NextPhantom]_vars

\* the action expressions that reference a view name that is no known view:
\* the row and the field
PhantomExpressions ==
  {x \in (DOMAIN actions_csv) \X {"navigate_target", "only_if_condition"} :
     \E ref \in Range(extract_view_references(actions_csv[x[1]][x[2]])) :
       Lower(ref[2]) \notin get_known_views(views_csv)}

\* C30: when action_targets.csv is absent, find_phantoms completes without
\* raising; every action expression that references a view name that is no
\* known view yields one phantom record with that action's name and table and
\* the scanned field, and no record names a view that exists, compared
\* without regard to letter case
C30_FallbackScanReportsEveryPhantom ==
  (h_pc # "start" /\ "appsheet_views.csv" \in present /\ "action_targets.csv" \notin present) =>
    /\ h_pc = "done"
    /\ Len(phantoms) = Cardinality(PhantomExpressions)
    /\ \A x \in PhantomExpressions : \E k \in DOMAIN phantoms :
         /\ phantoms[k].name = actions_csv[x[1]].action_name
         /\ phantoms[k].table = actions_csv[x[1]].source_table
         /\ phantoms[k].field = x[2]
    /\ \A k \in DOMAIN phantoms : \A i \in DOMAIN phantoms[k].missing_view_names :
         Lower(phantoms[k].missing_view_names[i]) \notin get_known_views(views_csv)

=============================================================================
